---- MODULE Spec2Model ----
(***************************************************************************)
(* A model of the shop management system: the entity layer (models.py),   *)
(* the reshaping/aggregation pipeline (analysis.py), the persistence       *)
(* gateway (db.py) and the handlers of the interface (gui.py).             *)
(*                                                                         *)
(* A Python str is a sequence of characters; a character is a one-element  *)
(* string, except the line feed, written "LF", and the tab, written "TAB". *)
(***************************************************************************)
EXTENDS Integers, Sequences, FiniteSets, TLC

VARIABLES customer, cust_before, cust_call, cust_raised,
          items, order_before, order_calls, order_raised, order_ret,
          db_customers, db_products, db_orders, report,
          conn, disk, db_call, partial,
          gui, messages, gui_call

custVars == <<customer, cust_before, cust_call, cust_raised>>
orderVars == <<items, order_before, order_calls, order_raised, order_ret>>
anaVars == <<db_customers, db_products, db_orders, report>>
gwVars == <<conn, disk, db_call, partial>>
guiVars == <<gui, messages, gui_call>>
vars == <<custVars, orderVars, anaVars, gwVars, guiVars>>

(***************************************************************************)
(* Bounds of the model.                                                    *)
(***************************************************************************)
MaxCalls == 4
MaxCustomers == 2
MaxProducts == 2
MaxOrders == 3
MaxFlattenOrders == 2
MaxLines == 2
MaxTopN == 3
MaxMinCommon == 3
MaxTick == 5
TicksPerDay == 2
MaxSalesProducts == 12
MaxSalesOrders == 3
SalesLinesPerOrder == 4
MaxGeoCustomers == 17
MaxGeoVaried == 3
MaxFileRows == 3
MaxDbProducts == 2
MaxDbOrders == 2
MaxGuiCustomers == 1
MaxGuiOrders == 1
MaxPending == 1
MaxFormPairs == 2

(***************************************************************************)
(* Constants of the program.                                               *)
(***************************************************************************)
\* if len(sales_by_category) > 10: head(10), [10:]
TopCategories == 10
\* if len(customers_by_city) > 15: head(15)
TopCities == 15

(***************************************************************************)
(* Characters and the classes the patterns of models.py use.               *)
(***************************************************************************)
AsciiLetters == {"a", "b", "c", "o", "x", "M"}
AsciiDigits19 == {"1", "2", "3", "4", "5", "6", "7", "8", "9"}
AsciiDigits == AsciiDigits19 \cup {"0"}
\* \d (the inputs of the model hold no decimal digit outside ASCII)
DecimalDigits == AsciiDigits
Whitespace == {" ", "LF", "TAB"}
\* [a-zA-Z0-9._%+-]
EmailLocalChars == AsciiLetters \cup AsciiDigits \cup {".", "_", "%", "+", "-"}
\* [a-zA-Z0-9.-]
EmailDomainChars == AsciiLetters \cup AsciiDigits \cup {".", "-"}

Rep(c, n) == [i \in 1..n |-> c]

AllIn(s, lo, hi, class) == \A k \in lo..hi : s[k] \in class

\* The positions at which "$" matches (no MULTILINE): the end of the string,
\* and just before a line feed that is the string's last character.
DollarPositions(s) ==
    {Len(s)} \cup (IF Len(s) > 0 /\ s[Len(s)] = "LF" THEN {Len(s) - 1} ELSE {})

\* s[1..m] is  [a-zA-Z0-9._%+-]+ @ [a-zA-Z0-9.-]+ \. [a-zA-Z]{2,}
email_pattern(s, m) ==
    \E i \in 2..m : \E j \in (i + 2)..(m - 2) :
        /\ s[i] = "@"
        /\ s[j] = "."
        /\ AllIn(s, 1, i - 1, EmailLocalChars)
        /\ AllIn(s, i + 1, j - 1, EmailDomainChars)
        /\ AllIn(s, j + 1, m, AsciiLetters)

\* s[1..m] is  \+? [1-9] \d{1,14}
phone_pattern(s, m) ==
    \E k \in 0..1 :
        /\ k = 1 => (m >= 1 /\ s[1] = "+")
        /\ m >= k + 2
        /\ m <= k + 15
        /\ s[k + 1] \in AsciiDigits19
        /\ AllIn(s, k + 2, m, DecimalDigits)

\* re.match(pattern, value) of the email setter
email_match(value) == \E m \in DollarPositions(value) : email_pattern(value, m)

\* re.match(pattern, value) of the phone setter
phone_match(value) == \E m \in DollarPositions(value) : phone_pattern(value, m)

RECURSIVE lstrip(_)
lstrip(s) == IF s # <<>> /\ Head(s) \in Whitespace THEN lstrip(Tail(s)) ELSE s

RECURSIVE rstrip(_)
rstrip(s) ==
    IF s # <<>> /\ s[Len(s)] \in Whitespace
    THEN rstrip(SubSeq(s, 1, Len(s) - 1))
    ELSE s

\* str.strip()
strip(s) == rstrip(lstrip(s))

\* the address setter's test: not (len(value.strip()) < 5)
address_ok(value) == ~(Len(strip(value)) < 5)

(***************************************************************************)
(* Customer: the object is a record of its attributes; NoCustomer stands   *)
(* for "no object" (nothing constructed yet).  ValueError is the outcome   *)
(* of a call that raised.                                                  *)
(***************************************************************************)
NoCustomer == [none |-> TRUE]
NoCall == [op |-> "none"]
Unset == <<"unset">>

\* isinstance(value, int): a value is a record of its Python type and what
\* it holds; bool is a subclass of int
isinstance_int(value) == value.type \in {"int", "bool"}

\* BaseModel.id.setter: the object as the call leaves it, and whether it
\* raised TypeError (any integer is assigned to self._id)
set_id(obj, value) ==
    IF ~isinstance_int(value)
    THEN [obj |-> obj, raised |-> TRUE]
    ELSE [obj |-> [obj EXCEPT !.id = value.value], raised |-> FALSE]

\* email.setter: the object as the call leaves it, and whether it raised
\* ValueError (the pattern is tested before self._email is assigned)
set_email(obj, value) ==
    IF ~email_match(value)
    THEN [obj |-> obj, raised |-> TRUE]
    ELSE [obj |-> [obj EXCEPT !.email = value], raised |-> FALSE]

\* phone.setter
set_phone(obj, value) ==
    IF ~phone_match(value)
    THEN [obj |-> obj, raised |-> TRUE]
    ELSE [obj |-> [obj EXCEPT !.phone = value], raised |-> FALSE]

\* address.setter
set_address(obj, value) ==
    IF ~address_ok(value)
    THEN [obj |-> obj, raised |-> TRUE]
    ELSE [obj |-> [obj EXCEPT !.address = value], raised |-> FALSE]

\* Customer.__init__: id, first_name, last_name are stored, then the three
\* setters run in the order email, phone, address; the first one that raises
\* ends the constructor with the object as built so far.
Customer__init__(id, first_name, last_name, email, phone, address) ==
    LET o0 == [id |-> id, first_name |-> first_name, last_name |-> last_name,
               email |-> Unset, phone |-> Unset, address |-> Unset]
        r1 == set_email(o0, email)
        r2 == IF r1.raised THEN r1 ELSE set_phone(r1.obj, phone)
        r3 == IF r2.raised THEN r2 ELSE set_address(r2.obj, address)
    IN  r3

(***************************************************************************)
(* Inputs of the customer operations.                                      *)
(***************************************************************************)
EmailInputs ==
    { <<"a", "@", "b", ".", "c", "o">>,
      <<"x", ".", "1", "@", "b", "-", "c", ".", "o", "x">>,
      <<"a", "@", "b", ".", "c", "o", "LF">>,
      <<"a", "@", "b", ".", "c">>,
      <<"a", "b", "-", "c">> }

PhoneInputs ==
    { <<"+", "7", "9", "1">>,
      <<"9">> \o Rep("0", 14),
      <<"9">> \o Rep("0", 15),
      <<"+", "1", "2", "LF">>,
      <<"0", "1", "2">>,
      <<"+", "1">> }

AddressInputs ==
    { <<"M", "o", "c", "o", "x", ",", " ", "1">>,
      <<" ", "a", "b", "c", "o", "x", "LF">>,
      <<" ", "a", "b", "c", "o", " ">>,
      <<>> }

CustomerIds == {1}

(***************************************************************************)
(* Customer operations.  cust_call records the call, cust_before the       *)
(* object before it, cust_raised whether it raised ValueError.             *)
(***************************************************************************)
\* customer = Customer(...): when the constructor raises, the assignment does
\* not happen and the name keeps what it held
NewCustomer ==
    \E id \in CustomerIds, e \in EmailInputs, p \in PhoneInputs, a \in AddressInputs :
        LET r == Customer__init__(id, "Ivan", "Ivanov", e, p, a)
        IN  /\ cust_call' = [op |-> "init", email |-> e, phone |-> p, address |-> a]
            /\ cust_before' = customer
            /\ cust_raised' = r.raised
            /\ customer' = IF r.raised THEN customer ELSE r.obj
            /\ UNCHANGED <<orderVars, anaVars, gwVars, guiVars>>

\* an assignment to a property of the object: the object is what the setter
\* left, whether or not it raised
SetterCall(field, value, r) ==
    /\ cust_call' = [op |-> "set", field |-> field, value |-> value]
    /\ cust_before' = customer
    /\ cust_raised' = r.raised
    /\ customer' = r.obj
    /\ UNCHANGED <<orderVars, anaVars, gwVars, guiVars>>

\* customer.email = value
SetEmail ==
    /\ customer # NoCustomer
    /\ \E v \in EmailInputs : SetterCall("email", v, set_email(customer, v))

\* customer.phone = value
SetPhone ==
    /\ customer # NoCustomer
    /\ \E v \in PhoneInputs : SetterCall("phone", v, set_phone(customer, v))

\* customer.address = value
SetAddress ==
    /\ customer # NoCustomer
    /\ \E v \in AddressInputs : SetterCall("address", v, set_address(customer, v))

\* the values assigned to customer.id: integers, and the text of one
IdInputs ==
    { [type |-> "int", value |-> 1], [type |-> "int", value |-> 2],
      [type |-> "str", value |-> 2] }

\* customer.id = value
SetId ==
    /\ customer # NoCustomer
    /\ \E v \in IdInputs :
          /\ cust_call' = [op |-> "set_id", value |-> v]
          /\ cust_before' = customer
          /\ cust_raised' = set_id(customer, v).raised
          /\ customer' = set_id(customer, v).obj
          /\ UNCHANGED <<orderVars, anaVars, gwVars, guiVars>>

InitCustomer ==
    /\ customer = NoCustomer
    /\ cust_before = NoCustomer
    /\ cust_call = NoCall
    /\ cust_raised = FALSE

(***************************************************************************)
(* Order: items is the order's list of (product, quantity) pairs.          *)
(* order_calls is the log of the add_product calls made so far, each with  *)
(* its arguments and whether it raised ValueError; order_before is the     *)
(* list before the last call, order_raised whether the last call raised    *)
(* and order_ret what the last call returned.                              *)
(***************************************************************************)
NoReturn == [none |-> TRUE]

\* Product objects; the price is not validated (it may be zero or negative)
Products ==
    { [id |-> 1, name |-> "Laptop", price |-> 5],
      [id |-> 2, name |-> "Mouse", price |-> -2] }

Quantities == {-1, 0, 1, 2}

\* add_product with the test off by one: quantity 0 is accepted
add_product_accepts_zero(its, product, quantity) ==
    IF quantity < 0
    THEN [items |-> its, raised |-> TRUE]
    ELSE [items |-> Append(its, <<product, quantity>>), raised |-> FALSE]

\* add_product that adds the quantity to the pair of a product already in the
\* list instead of appending a second pair
add_product_merges(its, product, quantity) ==
    IF quantity < 1
    THEN [items |-> its, raised |-> TRUE]
    ELSE IF \E k \in 1..Len(its) : its[k][1] = product
         THEN [items |-> [k \in 1..Len(its) |->
                            IF its[k][1] = product
                            THEN <<product, its[k][2] + quantity>>
                            ELSE its[k]],
               raised |-> FALSE]
         ELSE [items |-> Append(its, <<product, quantity>>), raised |-> FALSE]

\* Order.add_product: the list as the call leaves it, and whether it raised
add_product(its, product, quantity) ==
    IF quantity < 1
    THEN [items |-> its, raised |-> TRUE]
    ELSE [items |-> Append(its, <<product, quantity>>), raised |-> FALSE]

\* Order.total_cost: sum(product.price * quantity for product, quantity in items),
\* which starts from 0 and adds the terms in list order
RECURSIVE sum_from(_, _, _)
sum_from(acc, its, k) ==
    IF k > Len(its) THEN acc
    ELSE sum_from(acc + its[k][1].price * its[k][2], its, k + 1)

\* total_cost that counts every line item once, whatever its quantity
RECURSIVE sum_prices_from(_, _, _)
sum_prices_from(acc, its, k) ==
    IF k > Len(its) THEN acc
    ELSE sum_prices_from(acc + its[k][1].price, its, k + 1)

total_cost_ignores_quantity(its) == sum_prices_from(0, its, 1)

total_cost(its) == sum_from(0, its, 1)

\* order.add_product(product, quantity)
AddProduct ==
    /\ Len(order_calls) < MaxCalls
    /\ \E p \in Products, q \in Quantities :
        LET r == add_product(items, p, q)
        IN  /\ items' = r.items
            /\ order_before' = items
            /\ order_raised' = r.raised
            /\ order_calls' = Append(order_calls, <<p, q, r.raised>>)
            /\ order_ret' = NoReturn
    /\ UNCHANGED <<custVars, anaVars, gwVars, guiVars>>

\* order.total_cost()
TotalCost ==
    /\ order_ret' = [value |-> total_cost(items)]
    /\ order_raised' = FALSE
    /\ order_before' = items
    /\ UNCHANGED <<items, order_calls>>
    /\ UNCHANGED <<custVars, anaVars, gwVars, guiVars>>

\* Order.__init__ leaves items = []
InitOrder ==
    /\ items = <<>>
    /\ order_before = <<>>
    /\ order_calls = <<>>
    /\ order_raised = FALSE
    /\ order_ret = NoReturn

(***************************************************************************)
(* The analyzer (analysis.py).  db_customers holds the rows of the         *)
(* customers table, from which get_all_customers builds Customer objects;  *)
(* db_products and db_orders are what get_all_products and get_all_orders  *)
(* return: lists of Product and Order objects, an order carrying its line  *)
(* items as (product, quantity) pairs.  An order_date is a number of       *)
(* ticks, TicksPerDay of them to a calendar day.  report is what the last  *)
(* analyzer call produced.                                                 *)
(***************************************************************************)
NoReport == [kind |-> "none"]

\* the outcome of a call that ended with an uncaught ValueError
ValueErrorRaised == "ValueError"

\* Database.get_all_customers: one Customer(...) per row of the table; a row
\* the constructor refuses ends the call with ValueError, which the method's
\* "except sqlite3.Error" does not catch
get_all_customers(rows) ==
    IF \E k \in 1..Len(rows) :
          Customer__init__(rows[k].id, rows[k].first_name, rows[k].last_name,
                           rows[k].email, rows[k].phone, rows[k].address).raised
    THEN [raised |-> TRUE, value |-> <<>>]
    ELSE [raised |-> FALSE, value |-> rows]

\* 'Неизвестный' and 'Неизвестный товар', transliterated
UnknownCustomer == "Neizvestnyj"
UnknownProduct == "Neizvestnyj tovar"

\* the text of the figure for an empty frame, 'Нет данных для отображения',
\* and for a graph without edges, 'Недостаточно данных для построения графа связей'
NoDataText == "Net dannyh dlya otobrazheniya"
InsufficientDataText == "Nedostatochno dannyh dlya postroeniya grafa svyazej"

Max(S) == CHOOSE x \in S : \A y \in S : y <= x
Min(S) == CHOOSE x \in S : \A y \in S : x <= y

\* {c.id: f"{c.first_name} {c.last_name}" for c in customers}: a later entry
\* with the same key replaces an earlier one
customer_dict(customers) ==
    [id \in {customers[k].id : k \in 1..Len(customers)} |->
        LET last == Max({k \in 1..Len(customers) : customers[k].id = id})
        IN  customers[last].first_name \o " " \o customers[last].last_name]

\* {p.id: p.name for p in products}
product_dict(products) ==
    [id \in {products[k].id : k \in 1..Len(products)} |->
        products[Max({k \in 1..Len(products) : products[k].id = id})].name]

\* dict.get(key, default)
dict_get(d, key, default) == IF key \in DOMAIN d THEN d[key] ELSE default

\* the rows of one order with the customer looked up under the order's id
order_rows_keyed_by_order_id(order, cdict, pdict) ==
    [k \in 1..Len(order.items) |->
        LET product == order.items[k][1]
            quantity == order.items[k][2]
        IN  [order_id |-> order.id,
             customer_id |-> order.customer_id,
             customer_name |-> dict_get(cdict, order.id, UnknownCustomer),
             order_date |-> order.order_date,
             status |-> order.status,
             product_id |-> product.id,
             product_name |-> dict_get(pdict, product.id, UnknownProduct),
             quantity |-> quantity,
             price |-> product.price,
             total |-> product.price * quantity]]

\* the inner loop of get_orders_dataframe: one row per line item of the order
order_rows(order, cdict, pdict) ==
    [k \in 1..Len(order.items) |->
        LET product == order.items[k][1]
            quantity == order.items[k][2]
        IN  [order_id |-> order.id,
             customer_id |-> order.customer_id,
             customer_name |-> dict_get(cdict, order.customer_id, UnknownCustomer),
             order_date |-> order.order_date,
             status |-> order.status,
             product_id |-> product.id,
             product_name |-> dict_get(pdict, product.id, UnknownProduct),
             quantity |-> quantity,
             price |-> product.price,
             total |-> product.price * quantity]]

\* the outer loop of get_orders_dataframe, from order i on
RECURSIVE data_from(_, _, _, _)
data_from(orders, i, cdict, pdict) ==
    IF i > Len(orders) THEN <<>>
    ELSE order_rows(orders[i], cdict, pdict) \o data_from(orders, i + 1, cdict, pdict)

\* the outer loop with the rows of an order of an unknown customer left out
RECURSIVE data_known_from(_, _, _, _)
data_known_from(orders, i, cdict, pdict) ==
    IF i > Len(orders) THEN <<>>
    ELSE (IF orders[i].customer_id \in DOMAIN cdict
          THEN order_rows(orders[i], cdict, pdict)
          ELSE <<>>)
         \o data_known_from(orders, i + 1, cdict, pdict)

get_orders_dataframe_known_customers(orders, customers, products) ==
    data_known_from(orders, 1, customer_dict(customers), product_dict(products))

\* DataAnalyzer.get_orders_dataframe: the frame is the sequence of its rows
get_orders_dataframe(orders, customers, products) ==
    data_from(orders, 1, customer_dict(customers), product_dict(products))

df_empty(df) == Len(df) = 0

\* head(n) of pandas: the first n entries, or all but the last -n when n < 0
head(s, n) ==
    IF n >= 0
    THEN SubSeq(s, 1, IF n < Len(s) THEN n ELSE Len(s))
    ELSE SubSeq(s, 1, IF Len(s) + n > 0 THEN Len(s) + n ELSE 0)

\* df.groupby('customer_name')['order_id'].count(): the rows of each group
groupby_customer_name_count(df) ==
    [name \in {df[k].customer_name : k \in 1..Len(df)} |->
        Cardinality({k \in 1..Len(df) : df[k].customer_name = name})]

\* df.groupby('customer_name')['order_id'].nunique(): a series from the
\* customer names of the frame to the number of distinct order ids of the group
groupby_customer_name_nunique(df) ==
    [name \in {df[k].customer_name : k \in 1..Len(df)} |->
        Cardinality({df[k].order_id : k \in {j \in 1..Len(df) : df[j].customer_name = name}})]

\* series.sort_values(ascending=False): the entries (key, value) in descending
\* order of value; the order among equal values is the sort's choice
RECURSIVE descending_orders(_, _)
descending_orders(series, keys) ==
    IF keys = {} THEN {<<>>}
    ELSE LET m == Max({series[k] : k \in keys})
         IN  UNION { { << <<k, m>> >> \o rest : rest \in descending_orders(series, keys \ {k}) } :
                       k \in {x \in keys : series[x] = m} }

sort_values_descending(series) == descending_orders(series, DOMAIN series)

\* df.drop_duplicates('order_id'): the first row of each order id
drop_duplicates_order_id(df) ==
    LET keep == {k \in 1..Len(df) : \A j \in 1..(k - 1) : df[j].order_id # df[k].order_id}
        F[i \in 0..Len(df)] ==
            IF i = 0 THEN <<>>
            ELSE IF i \in keep THEN Append(F[i - 1], df[i]) ELSE F[i - 1]
    IN  F[Len(df)]

\* the calendar day an order_date falls in
day_of(date) == date \div TicksPerDay

\* set_index('order_date').groupby(day).size(): the days that have a row only
groupby_day_size(rows) ==
    [d \in {day_of(rows[k].order_date) : k \in 1..Len(rows)} |->
        Cardinality({k \in 1..Len(rows) : day_of(rows[k].order_date) = d})]

\* set_index('order_date').resample('D').size(): one bin per calendar day from
\* the day of the earliest row to the day of the latest, with its number of rows
resample_D_size(rows) ==
    LET days == {day_of(rows[k].order_date) : k \in 1..Len(rows)}
    IN  [d \in Min(days)..Max(days) |->
            Cardinality({k \in 1..Len(rows) : day_of(rows[k].order_date) = d})]

\* customer -> set of the product ids of the customer's rows
customer_products(df) ==
    [c \in {df[k].customer_id : k \in 1..Len(df)} |->
        {df[k].product_id : k \in {j \in 1..Len(df) : df[j].customer_id = c}}]

\* G.add_node(customer_id, label=customer_name, size=len(products))
graph_nodes(df) ==
    LET cp == customer_products(df)
    IN  [c \in DOMAIN cp |->
            [label |-> df[Min({k \in 1..Len(df) : df[k].customer_id = c})].customer_name,
             size |-> Cardinality(cp[c])]]

\* the edge loop with the test "more than min_common_products"
graph_edges_strictly_more(df, min_common_products) ==
    LET cp == customer_products(df)
    IN  [e \in {pair \in SUBSET (DOMAIN cp) :
                  /\ Cardinality(pair) = 2
                  /\ \E a, b \in pair :
                        /\ a # b
                        /\ Cardinality(cp[a] \cap cp[b]) > min_common_products} |->
            LET a == Min(e)
                b == Max(e)
            IN  [weight |-> Cardinality(cp[a] \cap cp[b])]]

\* the edge loop: every pair i < j of the customers, an undirected edge
\* when the two product sets share at least min_common_products ids
graph_edges(df, min_common_products) ==
    LET cp == customer_products(df)
    IN  [e \in {pair \in SUBSET (DOMAIN cp) :
                  /\ Cardinality(pair) = 2
                  /\ \E a, b \in pair :
                        /\ a # b
                        /\ Cardinality(cp[a] \cap cp[b]) >= min_common_products} |->
            LET a == Min(e)
                b == Max(e)
            IN  [weight |-> Cardinality(cp[a] \cap cp[b])]]

\* the label of the collapsed tail, 'Другие', transliterated
OtherLabel == "Drugie"

\* the sum of the column 'total' over the rows at the positions S
RECURSIVE sum_total(_, _)
sum_total(df, S) ==
    IF S = {} THEN 0
    ELSE LET k == CHOOSE x \in S : TRUE
         IN  df[k].total + sum_total(df, S \ {k})

\* df.groupby('product_name')['total'].sum(): a series from the product names
\* of the frame to the sum of the totals of the group's rows
groupby_product_name_sum(df) ==
    [name \in {df[k].product_name : k \in 1..Len(df)} |->
        sum_total(df, {k \in 1..Len(df) : df[k].product_name = name})]

\* the sum of the values of the entries i.. of a sorted series
RECURSIVE sum_values_from(_, _)
sum_values_from(sorted, i) ==
    IF i > Len(sorted) THEN 0 ELSE sorted[i][2] + sum_values_from(sorted, i + 1)

\* series[label] = value: the entry with the label gets the value where it
\* stands, and a label the series does not have is appended
series_setitem(sorted, label, value) ==
    IF \E i \in 1..Len(sorted) : sorted[i][1] = label
    THEN [i \in 1..Len(sorted) |->
            IF sorted[i][1] = label THEN <<label, value>> ELSE sorted[i]]
    ELSE Append(sorted, <<label, value>>)

\* lines 289-295: the ten first entries and the rest under OtherLabel, or the
\* series as it is
collapse_tail(sorted) ==
    IF Len(sorted) > TopCategories
    THEN series_setitem(head(sorted, TopCategories), OtherLabel,
                        sum_values_from(sorted, TopCategories + 1))
    ELSE sorted

\* ax.pie(values): matplotlib refuses a negative wedge size with ValueError
pie_raises(data) == \E i \in 1..Len(data) : data[i][2] < 0

\* x.split(',')[0]: the characters before the first comma (all of them when
\* there is none)
split_comma_first(x) ==
    LET commas == {k \in 1..Len(x) : x[k] = ","}
    IN  IF commas = {} THEN x ELSE SubSeq(x, 1, Min(commas) - 1)

\* the city token with the part before the comma taken as it is
city_not_stripped(x) ==
    IF \E k \in 1..Len(x) : x[k] = "," THEN split_comma_first(x) ELSE strip(x)

\* lambda x: x.split(',')[0].strip() if ',' in x else x.strip()
city(x) ==
    IF \E k \in 1..Len(x) : x[k] = "," THEN strip(split_comma_first(x)) ELSE strip(x)

\* df['city']: the token of every customer row, in row order
city_column(customers) == [k \in 1..Len(customers) |-> city(customers[k].address)]

\* the entries of a series of counts in descending order of count, those of
\* equal count in the order of first appearance in the column (dir = 1) or
\* in the reverse of it (dir = -1)
RECURSIVE ranked(_, _, _, _)
ranked(series, keys, column, dir) ==
    IF keys = {} THEN <<>>
    ELSE LET m == Max({series[k] : k \in keys})
             seen(k) == Min({i \in 1..Len(column) : column[i] = k})
             tops == {k \in keys : series[k] = m}
             pick == CHOOSE k \in tops : \A j \in tops : dir * seen(k) <= dir * seen(j)
         IN  << <<pick, m>> >> \o ranked(series, keys \ {pick}, column, dir)

\* df['city'].value_counts(): the number of rows of every token, sorted in
\* descending order; the order among equal counts is left to the sort, and
\* the model takes the order of first appearance and its reverse
value_counts(column) ==
    LET series == [c \in {column[k] : k \in 1..Len(column)} |->
                      Cardinality({k \in 1..Len(column) : column[k] = c})]
    IN  { ranked(series, DOMAIN series, column, dir) : dir \in {1, -1} }

\* the cap that keeps every city
top_cities_uncapped(customers_by_city) == customers_by_city

\* lines 337-340
top_cities(customers_by_city) ==
    IF Len(customers_by_city) > TopCities
    THEN head(customers_by_city, TopCities)
    ELSE customers_by_city

\* the graph drawn whatever its edges: the test of line 230 left out
no_edges_test_missing(edges) == FALSE

\* len(G.edges) == 0
no_edges(edges) == DOMAIN edges = {}

(***************************************************************************)
(* What the gateway returns.                                               *)
(***************************************************************************)
Catalog ==
    << [id |-> 1, name |-> "Laptop", price |-> 5],
       [id |-> 2, name |-> "Mouse", price |-> -2],
       [id |-> 3, name |-> "Keyboard", price |-> 3],
       [id |-> 4, name |-> "Monitor", price |-> 0] >>

NamePool == { <<"Ivan", "Ivanov">>, <<"Petr", "Petrov">> }

\* every list of at most MaxLines line items over a pool of pairs
ItemLists(pool) == UNION { [1..n -> pool] : n \in 0..MaxLines }

Digit(d) == <<"0", "1", "2", "3", "4", "5", "6", "7", "8", "9">>[d + 1]

\* the email column is UNIQUE: the row numbered n holds an address of its own
RowEmail(n) == <<"a", Digit(n \div 10), Digit(n % 10), "@", "b", ".", "c", "o">>
RowPhone == <<"+", "7", "9", "1">>
\* an email no Customer accepts; an import stores it as it stands
BadEmail == <<"a", "b", "-", "c">>
RowAddress == <<"M", "o", "c", "o", "x", ",", " ", "1">>

\* a row of the customers table: the store numbers the rows 1, 2, ...
StoreCustomerRow(limit, names, emails, addresses) ==
    /\ Len(db_customers) < limit
    /\ \E nm \in names, e \in emails, a \in addresses :
        db_customers' = Append(db_customers,
            [id |-> Len(db_customers) + 1, first_name |-> nm[1], last_name |-> nm[2],
             email |-> e, phone |-> RowPhone, address |-> a])
    /\ report' = NoReport
    /\ UNCHANGED <<db_products, db_orders, custVars, orderVars, gwVars, guiVars>>

StoreCustomer ==
    StoreCustomerRow(MaxCustomers, NamePool, {RowEmail(Len(db_customers) + 1)}, {RowAddress})

\* a product row
StoreProduct ==
    /\ Len(db_products) < MaxProducts
    /\ db_products' = Append(db_products, Catalog[Len(db_products) + 1])
    /\ report' = NoReport
    /\ UNCHANGED <<db_customers, db_orders, custVars, orderVars, gwVars, guiVars>>

\* an order with its line items; the customer reference is not checked
StoreOrder(limit, cids, dates, lists) ==
    /\ Len(db_orders) < limit
    /\ \E c \in cids, d \in dates, its \in lists :
        db_orders' = Append(db_orders,
            [id |-> Len(db_orders) + 1, customer_id |-> c, order_date |-> d,
             status |-> "novyj", items |-> its])
    /\ report' = NoReport
    /\ UNCHANGED <<db_customers, db_products, custVars, orderVars, gwVars, guiVars>>

(***************************************************************************)
(* The analyzer's operations.                                              *)
(***************************************************************************)
Customers == get_all_customers(db_customers)

\* get_orders_dataframe of the analyzer, when get_all_customers returns
Frame == get_orders_dataframe(db_orders, Customers.value, db_products)

\* the call ends where get_all_customers raised
Raised(kind) == [kind |-> kind, figure |-> ValueErrorRaised]

\* a report reads the tables once: customers is what get_all_customers gives
\* (or that it raised) and df the frame get_orders_dataframe builds of it
get_orders_dataframe_call(customers, df) ==
    IF customers.raised
    THEN report' = Raised("get_orders_dataframe")
    ELSE report' = [kind |-> "get_orders_dataframe", figure |-> "frame", df |-> df]

\* analyzer.get_orders_dataframe()
GetOrdersDataframe ==
    /\ get_orders_dataframe_call(Customers, Frame)
    /\ UNCHANGED <<db_customers, db_products, db_orders, custVars, orderVars, gwVars, guiVars>>

top_customers_by_orders(customers, df) ==
    \E top_n \in 0..MaxTopN :
        IF customers.raised
        THEN report' = Raised("top_customers_by_orders")
        ELSE IF df_empty(df)
        THEN report' = [kind |-> "top_customers_by_orders", top_n |-> top_n,
                        figure |-> NoDataText, bars |-> <<>>]
        ELSE \E sorted \in sort_values_descending(groupby_customer_name_nunique(df)) :
                report' = [kind |-> "top_customers_by_orders", top_n |-> top_n,
                           figure |-> "bar", bars |-> head(sorted, top_n)]

\* analyzer.top_customers_by_orders(top_n)
TopCustomersByOrders ==
    /\ top_customers_by_orders(Customers, Frame)
    /\ UNCHANGED <<db_customers, db_products, db_orders, custVars, orderVars, gwVars, guiVars>>

orders_dynamics(customers, df) ==
    IF customers.raised
    THEN report' = Raised("orders_dynamics")
    ELSE IF df_empty(df)
    THEN report' = [kind |-> "orders_dynamics", figure |-> NoDataText,
                    orders_by_date |-> <<>>]
    ELSE report' = [kind |-> "orders_dynamics", figure |-> "line",
                    orders_by_date |-> resample_D_size(drop_duplicates_order_id(df))]

\* analyzer.orders_dynamics(period='D')
OrdersDynamics ==
    /\ orders_dynamics(Customers, Frame)
    /\ UNCHANGED <<db_customers, db_products, db_orders, custVars, orderVars, gwVars, guiVars>>

\* nodes and edges are the graph G the call built; layout tells whether
\* spring_layout was called and drawn which nodes draw_networkx_nodes drew
customer_connections_graph(customers, df) ==
    \E t \in 0..MaxMinCommon :
        IF customers.raised
        THEN report' = Raised("customer_connections_graph")
        ELSE IF df_empty(df)
        THEN report' = [kind |-> "customer_connections_graph", min_common_products |-> t,
                        figure |-> NoDataText, nodes |-> <<>>, edges |-> <<>>,
                        layout |-> FALSE, drawn |-> {}]
        ELSE LET nodes == graph_nodes(df)
                 edges == graph_edges(df, t)
             IN  IF no_edges(edges)
                 THEN report' = [kind |-> "customer_connections_graph",
                                 min_common_products |-> t,
                                 figure |-> InsufficientDataText,
                                 nodes |-> nodes, edges |-> edges,
                                 layout |-> FALSE, drawn |-> {}]
                 ELSE report' = [kind |-> "customer_connections_graph",
                                 min_common_products |-> t,
                                 figure |-> "graph",
                                 nodes |-> nodes, edges |-> edges,
                                 layout |-> TRUE, drawn |-> DOMAIN nodes]

\* analyzer.customer_connections_graph(min_common_products)
CustomerConnectionsGraph ==
    /\ customer_connections_graph(Customers, Frame)
    /\ UNCHANGED <<db_customers, db_products, db_orders, custVars, orderVars, gwVars, guiVars>>

\* sales_data is the series handed to ax.pie
sales_by_category(customers, df) ==
    IF customers.raised
    THEN report' = Raised("sales_by_category")
    ELSE IF df_empty(df)
    THEN report' = [kind |-> "sales_by_category", figure |-> NoDataText,
                    sales_data |-> <<>>]
    ELSE \E sorted \in sort_values_descending(groupby_product_name_sum(df)) :
            LET sales_data == collapse_tail(sorted)
            IN  report' = [kind |-> "sales_by_category",
                           figure |-> IF pie_raises(sales_data)
                                      THEN ValueErrorRaised ELSE "pie",
                           sales_data |-> sales_data]

\* analyzer.sales_by_category()
SalesByCategory ==
    /\ sales_by_category(Customers, Frame)
    /\ UNCHANGED <<db_customers, db_products, db_orders, custVars, orderVars, gwVars, guiVars>>

\* the frame is get_customers_dataframe(), one row per customer (the orders
\* frame is not read); bars is the series that is plotted
customer_geography(customers, df) ==
    IF customers.raised
    THEN report' = Raised("customer_geography")
    ELSE IF Len(customers.value) = 0
    THEN report' = [kind |-> "customer_geography", figure |-> NoDataText, bars |-> <<>>]
    ELSE \E customers_by_city \in value_counts(city_column(customers.value)) :
            report' = [kind |-> "customer_geography", figure |-> "bar",
                       bars |-> top_cities(customers_by_city)]

\* analyzer.customer_geography()
CustomerGeography ==
    /\ customer_geography(Customers, Frame)
    /\ UNCHANGED <<db_customers, db_products, db_orders, custVars, orderVars, gwVars, guiVars>>

InitAnalysis ==
    /\ db_customers = <<>>
    /\ db_products = <<>>
    /\ db_orders = <<>>
    /\ report = NoReport

(***************************************************************************)
(* The persistence gateway (db.py).  conn is the content of the tables as  *)
(* the connection of the Database object sees it, its own uncommitted      *)
(* writes included; disk is the committed content, which is what a new     *)
(* connection finds.  db_call records the last call of the gateway: the    *)
(* error it met (if any), whether an exception left the method, and what   *)
(* it returned.  partial holds the rows that the last import inserted when  *)
(* it failed after its first row (and is empty when it did not).           *)
(***************************************************************************)
EmptyTables == [customers |-> <<>>, products |-> <<>>, orders |-> <<>>, order_items |-> <<>>]
NoDbCall == [op |-> "none"]

\* the errors the methods catch (sqlite3.Error, IOError, json.JSONDecodeError)
\* and those they do not
CaughtErrors == {"sqlite3.Error", "IOError", "JSONDecodeError"}
UncaughtErrors == {"ValueError", "StopIteration", "KeyError"}

\* INTEGER PRIMARY KEY AUTOINCREMENT: the id of the next row of a table
lastrowid(rows) ==
    IF rows = <<>> THEN 1 ELSE Max({rows[k].id : k \in 1..Len(rows)}) + 1

\* a line of a file that lacks values: sqlite3 refuses the bindings of a CSV
\* row (ProgrammingError), a JSON item lacks the key (KeyError)
ShortRow == [short |-> TRUE]

\* INSERT INTO customers (first_name, last_name, email, phone, address): the
\* statement fails on an email the table already holds (UNIQUE)
insert_customer(t, values) ==
    IF values = ShortRow \/ \E k \in 1..Len(t.customers) : t.customers[k].email = values.email
    THEN [ok |-> FALSE, t |-> t]
    ELSE [ok |-> TRUE,
          t |-> [t EXCEPT !.customers =
                    Append(@, [id |-> lastrowid(@),
                               first_name |-> values.first_name,
                               last_name |-> values.last_name,
                               email |-> values.email,
                               phone |-> values.phone,
                               address |-> values.address])]]

\* what a call of the gateway leaves: the connection's view, whether it
\* committed, the error it met, what it returned
Outcome(c, commit, error, ret) ==
    [conn |-> c, commit |-> commit, error |-> error, ret |-> ret]

\* Database.add_customer; fault: the statement meets sqlite3.OperationalError
Database_add_customer(c, cust, fault) ==
    LET r == insert_customer(c, cust)
    IN  IF fault \/ ~r.ok
        THEN Outcome(c, FALSE, "sqlite3.Error", -1)
        ELSE Outcome(r.t, TRUE, "none", r.t.customers[Len(r.t.customers)].id)

\* Database.get_all_customers
Database_get_all_customers(c, fault) ==
    IF fault THEN Outcome(c, FALSE, "sqlite3.Error", <<>>)
    ELSE LET r == get_all_customers(c.customers)
         IN  IF r.raised THEN Outcome(c, FALSE, "ValueError", <<>>)
             ELSE Outcome(c, FALSE, "none", r.value)

\* Database.add_product
Database_add_product(c, product, fault) ==
    IF fault
    THEN Outcome(c, FALSE, "sqlite3.Error", -1)
    ELSE LET id == lastrowid(c.products)
         IN  Outcome([c EXCEPT !.products = Append(@, [product EXCEPT !.id = id])],
                     TRUE, "none", id)

\* Database.get_all_products
Database_get_all_products(c, fault) ==
    IF fault THEN Outcome(c, FALSE, "sqlite3.Error", <<>>)
    ELSE Outcome(c, FALSE, "none", c.products)

\* datetime.isoformat and datetime.fromisoformat on the text of a date
isoformat(date) == <<"iso", date>>
fromisoformat(text) == text[2]

\* the loop of add_order over order.items from item k on: INSERT INTO
\* order_items fails on a product the order already has a row for (PRIMARY
\* KEY (order_id, product_id)), and the rows inserted before it stay
RECURSIVE insert_items(_, _, _, _)
insert_items(t, order_id, its, k) ==
    IF k > Len(its) THEN [ok |-> TRUE, t |-> t]
    ELSE IF \E j \in 1..Len(t.order_items) :
                /\ t.order_items[j].order_id = order_id
                /\ t.order_items[j].product_id = its[k][1].id
         THEN [ok |-> FALSE, t |-> t]
         ELSE insert_items([t EXCEPT !.order_items =
                               Append(@, [order_id |-> order_id,
                                          product_id |-> its[k][1].id,
                                          quantity |-> its[k][2]])],
                           order_id, its, k + 1)

\* Database.add_order: the order row, then its items, then the commit; an
\* sqlite3.Error on the way ends the call with -1 and no rollback
Database_add_order(c, order, fault) ==
    IF fault
    THEN Outcome(c, FALSE, "sqlite3.Error", -1)
    ELSE LET order_id == lastrowid(c.orders)
             t1 == [c EXCEPT !.orders =
                       Append(@, [id |-> order_id, customer_id |-> order.customer_id,
                                  order_date |-> isoformat(order.order_date),
                                  status |-> order.status])]
             r == insert_items(t1, order_id, order.items, 1)
         IN  IF r.ok THEN Outcome(r.t, TRUE, "none", order_id)
             ELSE Outcome(r.t, FALSE, "sqlite3.Error", -1)

\* SELECT p.*, oi.quantity FROM order_items oi JOIN products p ON
\* oi.product_id = p.id WHERE oi.order_id = ?: the item rows of the order that
\* have a product row, each with its product
joined_items(t, order_id) ==
    LET match == {j \in 1..Len(t.order_items) :
                    /\ t.order_items[j].order_id = order_id
                    /\ \E p \in 1..Len(t.products) :
                          t.products[p].id = t.order_items[j].product_id}
        F[j \in 0..Len(t.order_items)] ==
            IF j = 0 THEN <<>>
            ELSE IF j \in match
                 THEN Append(F[j - 1],
                        << t.products[CHOOSE p \in 1..Len(t.products) :
                                         t.products[p].id = t.order_items[j].product_id],
                           t.order_items[j].quantity >>)
                 ELSE F[j - 1]
    IN  F[Len(t.order_items)]

\* the Order object built of an order row: add_product for every joined item
order_of_row(t, row) ==
    LET its == joined_items(t, row.id)
    IN  [raised |-> \E k \in 1..Len(its) : add_product(<<>>, its[k][1], its[k][2]).raised,
         order |-> [id |-> row.id, customer_id |-> row.customer_id,
                    order_date |-> fromisoformat(row.order_date),
                    status |-> row.status, items |-> its]]

\* Database.get_all_orders
Database_get_all_orders(c, fault) ==
    IF fault THEN Outcome(c, FALSE, "sqlite3.Error", <<>>)
    ELSE IF \E k \in 1..Len(c.orders) : order_of_row(c, c.orders[k]).raised
    THEN Outcome(c, FALSE, "ValueError", <<>>)
    ELSE Outcome(c, FALSE, "none", [k \in 1..Len(c.orders) |-> order_of_row(c, c.orders[k]).order])

\* the loop of an import over the rows of the file from row k on: the first
\* statement that fails ends it, and the rows inserted before it stay
RECURSIVE insert_rows(_, _, _)
insert_rows(t, rows, k) ==
    IF k > Len(rows) THEN [failed_at |-> 0, t |-> t]
    ELSE LET r == insert_customer(t, rows[k])
         IN  IF r.ok THEN insert_rows(r.t, rows, k + 1)
             ELSE [failed_at |-> k, t |-> t]

\* Database.import_from_csv('customers', filename).  A file is missing (or
\* unreadable), empty (not even a header line) or holds a header line and
\* rows; the call returns None in every case it returns
Database_import_from_csv(c, file, fault) ==
    IF file.kind = "missing" THEN Outcome(c, FALSE, "IOError", "None")
    ELSE IF file.kind \in {"empty", "malformed"} THEN Outcome(c, FALSE, "StopIteration", "None")
    ELSE IF fault /\ file.rows # <<>> THEN Outcome(c, FALSE, "sqlite3.Error", "None")
    ELSE LET r == insert_rows(c, file.rows, 1)
         IN  IF r.failed_at = 0 THEN Outcome(r.t, TRUE, "none", "None")
             ELSE Outcome(r.t, FALSE, "sqlite3.Error", "None")

\* Database.import_from_json('customers', filename).  The keys of the first
\* item are the columns: an item that lacks one of them raises KeyError, which
\* the method does not catch; a first item that lacks one fails its INSERT
\* (NOT NULL); an empty list returns before the commit
Database_import_from_json(c, file, fault) ==
    IF file.kind = "missing" THEN Outcome(c, FALSE, "IOError", "None")
    ELSE IF file.kind \in {"empty", "malformed"} THEN Outcome(c, FALSE, "JSONDecodeError", "None")
    ELSE IF file.rows = <<>> THEN Outcome(c, FALSE, "none", "None")
    ELSE IF fault THEN Outcome(c, FALSE, "sqlite3.Error", "None")
    ELSE LET r == insert_rows(c, file.rows, 1)
         IN  IF r.failed_at = 0 THEN Outcome(r.t, TRUE, "none", "None")
             ELSE IF r.failed_at > 1 /\ file.rows[r.failed_at] = ShortRow
             THEN Outcome(r.t, FALSE, "KeyError", "None")
             ELSE Outcome(r.t, FALSE, "sqlite3.Error", "None")

(***************************************************************************)
(* Inputs of the gateway.                                                  *)
(***************************************************************************)
CustomerValues(email) ==
    [first_name |-> "Ivan", last_name |-> "Ivanov", email |-> email,
     phone |-> RowPhone, address |-> RowAddress]

\* Customer objects: their fields have passed the setters
GatewayCustomers == {CustomerValues(RowEmail(1)), CustomerValues(RowEmail(2))}

\* the lines of a file: nothing validates them
FileRows == <<CustomerValues(RowEmail(3)), CustomerValues(RowEmail(1)),
              CustomerValues(BadEmail), ShortRow>>

\* the files: missing, empty, not parseable, and the lists of at most
\* MaxFileRows lines that start at some line of FileRows and take every line
\* or every second line from there
Files ==
    { [kind |-> k, rows |-> <<>>] : k \in {"missing", "empty", "malformed"} }
    \cup { [kind |-> "rows",
            rows |-> [i \in 1..n |-> FileRows[((first - 1 + (i - 1) * step) % Len(FileRows)) + 1]]] :
             n \in 0..MaxFileRows, first \in 1..Len(FileRows), step \in 1..2 }

\* Order objects: every quantity has passed add_product
GatewayOrders ==
    { [customer_id |-> 1, order_date |-> 0, status |-> "novyj", items |-> its] :
        its \in ItemLists({<<Catalog[1], 1>>, <<Catalog[2], 2>>}) }

(***************************************************************************)
(* The calls of the gateway.                                               *)
(***************************************************************************)
\* the call ends: a commit makes the connection's view the committed content
Returns(op, r) ==
    /\ conn' = r.conn
    /\ disk' = IF r.commit THEN r.conn ELSE disk
    /\ db_call' = [op |-> op, error |-> r.error, ret |-> r.ret,
                   raised |-> r.error \in UncaughtErrors]

AddCustomer ==
    /\ \E cust \in GatewayCustomers, fault \in BOOLEAN :
          Returns("add_customer", Database_add_customer(conn, cust, fault))
    /\ UNCHANGED <<partial, custVars, orderVars, anaVars, guiVars>>

GetAllCustomers ==
    /\ \E fault \in BOOLEAN :
          Returns("get_all_customers", Database_get_all_customers(conn, fault))
    /\ UNCHANGED <<partial, custVars, orderVars, anaVars, guiVars>>

DbAddProduct ==
    /\ Len(conn.products) < MaxDbProducts
    /\ \E fault \in BOOLEAN :
          Returns("add_product",
                  Database_add_product(conn, Catalog[Len(conn.products) + 1], fault))
    /\ UNCHANGED <<partial, custVars, orderVars, anaVars, guiVars>>

GetAllProducts ==
    /\ \E fault \in BOOLEAN :
          Returns("get_all_products", Database_get_all_products(conn, fault))
    /\ UNCHANGED <<partial, custVars, orderVars, anaVars, guiVars>>

\* db_call also keeps the order passed, the tables before the call and
\* whether the database refused a statement for a reason of its own
AddOrder ==
    /\ Len(conn.orders) < MaxDbOrders
    /\ \E order \in GatewayOrders, fault \in BOOLEAN :
          LET r == Database_add_order(conn, order, fault)
          IN  /\ conn' = r.conn
              /\ disk' = IF r.commit THEN r.conn ELSE disk
              /\ db_call' = [op |-> "add_order", error |-> r.error, ret |-> r.ret,
                             raised |-> r.error \in UncaughtErrors,
                             order |-> order, before |-> conn, fault |-> fault]
    /\ UNCHANGED <<partial, custVars, orderVars, anaVars, guiVars>>

GetAllOrders ==
    /\ \E fault \in BOOLEAN :
          Returns("get_all_orders", Database_get_all_orders(conn, fault))
    /\ UNCHANGED <<partial, custVars, orderVars, anaVars, guiVars>>

\* an import: db_call also keeps the rows of the file, the customers before
\* the call and the row the import failed at (0: none)
Import(op, file, r) ==
    LET before == Len(conn.customers)
        inserted == Len(r.conn.customers) - before
        failed_at == IF r.error \in {"sqlite3.Error", "KeyError"} /\ file.rows # <<>>
                     THEN inserted + 1 ELSE 0
    IN  /\ conn' = r.conn
        /\ disk' = IF r.commit THEN r.conn ELSE disk
        /\ db_call' = [op |-> op, error |-> r.error, ret |-> r.ret,
                       raised |-> r.error \in UncaughtErrors,
                       rows |-> file.rows, before |-> conn.customers,
                       failed_at |-> failed_at]
        /\ partial' = IF failed_at > 1
                      THEN {r.conn.customers[k] : k \in (before + 1)..(before + inserted)}
                      ELSE {}
        /\ UNCHANGED <<custVars, orderVars, anaVars, guiVars>>

ImportFromCsv ==
    \E file \in Files, fault \in BOOLEAN :
        Import("import_from_csv", file, Database_import_from_csv(conn, file, fault))

ImportFromJson ==
    \E file \in Files, fault \in BOOLEAN :
        Import("import_from_json", file, Database_import_from_json(conn, file, fault))

\* the application ends (nothing commits or closes the connection) and is
\* started again: Database() connects to the same file
Restart ==
    /\ conn' = disk
    /\ db_call' = [op |-> "restart", error |-> "none", ret |-> "None", raised |-> FALSE]
    /\ UNCHANGED <<disk, partial, custVars, orderVars, anaVars, guiVars>>

InitGateway ==
    /\ conn = EmptyTables
    /\ disk = EmptyTables
    /\ db_call = NoDbCall
    /\ partial = {}

\* the customers table: single inserts, imports, reads
NextGateway ==
    \/ AddCustomer
    \/ GetAllCustomers
    \/ ImportFromCsv
    \/ ImportFromJson
    \/ Restart

\* the products, orders and order_items tables
NextGatewayOrders ==
    \/ DbAddProduct
    \/ GetAllProducts
    \/ AddOrder
    \/ GetAllOrders
    \/ Restart

(***************************************************************************)
(* The interface (gui.py).  gui is the state of the widgets: the rows the  *)
(* three lists display, the values the two selectors of the order form     *)
(* offer, the texts of its three variables, and the pending order, both as *)
(* the list of pairs and as the lines of the list box.  messages is the    *)
(* sequence of message boxes the last handler showed.  gui_call records    *)
(* the last handler: the error its gateway call met, whether an exception  *)
(* left it, and for the placeholders the tables and widgets before it.     *)
(***************************************************************************)
BlankGui ==
    [customers_tree |-> <<>>, customer_combo |-> <<>>,
     products_tree |-> <<>>, product_combo |-> <<>>,
     orders_tree |-> <<>>,
     customer_var |-> <<>>, product_var |-> <<>>, quantity_var |-> <<"1">>,
     order_items_list |-> <<>>, current_order_items |-> <<>>]

NoSnapshot == [none |-> TRUE]

\* the message boxes, by function and title
SuccessInfo == <<"showinfo", "Uspeh">>
PlaceholderInfo == <<"showinfo", "Informaciya">>
ErrorBox == <<"showerror", "Oshibka">>
WarningBox == <<"showwarning", "Preduprezhdenie">>
Confirmation == <<"askyesno", "Podtverzhdenie">>

\* "Неизвестный клиент"
UnknownCustomerName == "Neizvestnyj klient"

\* f"{c.id} - {c.first_name} {c.last_name}" and f"{p.id} - {p.name}", and
\* int(text.split(' - ')[0]) on such a text
customer_text(c) == <<c.id, " - ", c.first_name, " ", c.last_name>>
product_text(p) == <<p.id, " - ", p.name>>
split_id(text) == text[1]

\* int(text) on the text of the quantity: an optional sign and decimal digits
RECURSIVE digits_value(_, _, _)
digits_value(acc, text, k) ==
    IF k > Len(text) THEN acc
    ELSE digits_value(10 * acc + (CHOOSE d \in 0..9 : Digit(d) = text[k]), text, k + 1)

int(text) ==
    LET signed == text # <<>> /\ text[1] \in {"-", "+"}
        digits == IF signed THEN Tail(text) ELSE text
    IN  IF digits = <<>> \/ \E k \in 1..Len(digits) : digits[k] \notin AsciiDigits
        THEN [raised |-> TRUE, value |-> 0]
        ELSE [raised |-> FALSE,
              value |-> IF signed /\ text[1] = "-"
                        THEN 0 - digits_value(0, digits, 1)
                        ELSE digits_value(0, digits, 1)]

\* order_date.strftime("%Y-%m-%d %H:%M") and f"{total:.2f}"
strftime(date) == <<"%Y-%m-%d %H:%M", date>>
format_2f(total) == <<total, ".", "0", "0">>

\* update_customers_list: the list is cleared before the table is read
update_customers_list(g, c) ==
    LET cleared == [g EXCEPT !.customers_tree = <<>>]
        r == Database_get_all_customers(c, FALSE)
    IN  IF r.error \in UncaughtErrors
        THEN [raised |-> TRUE, gui |-> cleared]
        ELSE [raised |-> FALSE,
              gui |-> [cleared EXCEPT
                         !.customers_tree = r.ret,
                         !.customer_combo = [k \in 1..Len(r.ret) |-> customer_text(r.ret[k])]]]

\* update_products_list
update_products_list(g, c) ==
    [raised |-> FALSE,
     gui |-> [g EXCEPT !.products_tree = Database_get_all_products(c, FALSE).ret]]

\* update_product_combos
update_product_combos(g, c) ==
    LET products == Database_get_all_products(c, FALSE).ret
    IN  [raised |-> FALSE,
         gui |-> [g EXCEPT !.product_combo =
                     [k \in 1..Len(products) |-> product_text(products[k])]]]

\* update_orders_list
update_orders_list(g, c) ==
    LET cleared == [g EXCEPT !.orders_tree = <<>>]
        orders == Database_get_all_orders(c, FALSE)
        customers == Database_get_all_customers(c, FALSE)
        name(order) ==
            IF \E k \in 1..Len(customers.ret) : customers.ret[k].id = order.customer_id
            THEN LET cust == customers.ret[CHOOSE k \in 1..Len(customers.ret) :
                                             customers.ret[k].id = order.customer_id]
                 IN  <<cust.first_name, " ", cust.last_name>>
            ELSE UnknownCustomerName
    IN  IF orders.error \in UncaughtErrors \/ customers.error \in UncaughtErrors
        THEN [raised |-> TRUE, gui |-> cleared]
        ELSE [raised |-> FALSE,
              gui |-> [cleared EXCEPT !.orders_tree =
                         [k \in 1..Len(orders.ret) |->
                            [id |-> orders.ret[k].id,
                             customer_name |-> name(orders.ret[k]),
                             order_date |-> strftime(orders.ret[k].order_date),
                             status |-> orders.ret[k].status,
                             total |-> format_2f(total_cost(orders.ret[k].items))]]]]

\* clear_order_form
clear_order_form(g) ==
    [g EXCEPT !.customer_var = <<>>, !.product_var = <<>>, !.quantity_var = <<"1">>,
              !.order_items_list = <<>>, !.current_order_items = <<>>]

\* one update after another: the first that raises ends the sequence
then_products_list(u, c) == IF u.raised THEN u ELSE update_products_list(u.gui, c)
then_orders_list(u, c) == IF u.raised THEN u ELSE update_orders_list(u.gui, c)
then_product_combos(u, c) == IF u.raised THEN u ELSE update_product_combos(u.gui, c)

\* ShopApp.__init__ from the widgets as created: the three lists are filled
\* (update_product_combos is not called)
ShopApp__init__(c) ==
    then_orders_list(then_products_list(update_customers_list(BlankGui, c), c), c)

\* export_to_csv and export_to_json: the table is read and the file written;
\* fault: the SELECT meets an sqlite3.Error; target: whether the file can be
\* opened for writing
Database_export_to_csv(c, target, fault) ==
    IF fault THEN Outcome(c, FALSE, "sqlite3.Error", "None")
    ELSE IF target = "unwritable" THEN Outcome(c, FALSE, "IOError", "None")
    ELSE Outcome(c, FALSE, "none", "None")

Database_export_to_json(c, target, fault) ==
    IF fault THEN Outcome(c, FALSE, "sqlite3.Error", "None")
    ELSE IF target = "unwritable" THEN Outcome(c, FALSE, "IOError", "None")
    ELSE Outcome(c, FALSE, "none", "None")

\* delete_customer that deletes the row of the customer once the question is
\* answered with yes
delete_customer_deletes(t, customer_id) ==
    [t EXCEPT !.customers = SelectSeq(@, LAMBDA row : row.id # customer_id)]

\* lines 527 and 540, "TODO": the tables after the question is answered with
\* yes; nothing is deleted
delete_customer_todo(t, customer_id) == t

delete_product_todo(t, product_id) == t

(***************************************************************************)
(* Inputs of the interface.                                                *)
(***************************************************************************)
\* the texts of the email entry: an address and a text that is none
EmailEntries == {RowEmail(1), BadEmail}

\* the products the form is filled with, one after the other: Product(id=0, ...)
ProductEntries == <<[Catalog[1] EXCEPT !.id = 0], [Catalog[2] EXCEPT !.id = 0]>>

\* the texts of the quantity spin box, which takes typed text as well
QuantityTexts == {<<"1">>, <<"0">>}

\* what the file dialog returns: nothing (cancelled) or a file
ExportTargets == {"cancelled", "writable", "unwritable"}

(***************************************************************************)
(* The handlers of the interface.                                          *)
(***************************************************************************)
\* the window is up: __init__ raised nothing
Running == ~(gui_call.handler = "__init__" /\ gui_call.raised)

Handled(handler, error, raised) ==
    gui_call' = [handler |-> handler, error |-> error, raised |-> raised,
                 before |-> NoSnapshot]

\* the application ends (nothing commits or closes the connection) and is
\* started again
GuiStart ==
    LET u == ShopApp__init__(disk)
    IN  /\ conn' = disk
        /\ gui' = u.gui
        /\ messages' = <<>>
        /\ Handled("__init__", IF u.raised THEN "ValueError" ELSE "none", u.raised)
        /\ UNCHANGED <<disk, db_call, partial, custVars, orderVars, anaVars>>

\* ShopApp.add_customer
GuiAddCustomer ==
    /\ Running
    /\ Len(conn.customers) < MaxGuiCustomers
    /\ \E email \in EmailEntries :
        LET c == Customer__init__(0, "Ivan", "Ivanov", email, RowPhone, RowAddress)
            r == Database_add_customer(conn, CustomerValues(email), FALSE)
            u == update_customers_list(gui, r.conn)
        IN  IF c.raised
            THEN /\ messages' = <<ErrorBox>>
                 /\ Handled("add_customer", "ValueError", FALSE)
                 /\ UNCHANGED <<conn, disk, gui>>
            ELSE /\ conn' = r.conn
                 /\ disk' = IF r.commit THEN r.conn ELSE disk
                 /\ IF r.ret = -1
                    THEN /\ messages' = <<ErrorBox>>
                         /\ gui' = gui
                    ELSE /\ messages' = IF u.raised THEN <<SuccessInfo, ErrorBox>>
                                        ELSE <<SuccessInfo>>
                         /\ gui' = u.gui
                 /\ Handled("add_customer", r.error, FALSE)
    /\ UNCHANGED <<db_call, partial, custVars, orderVars, anaVars>>

\* ShopApp.add_product
GuiAddProduct ==
    /\ Running
    /\ Len(conn.products) < Len(ProductEntries)
    /\ LET r == Database_add_product(conn, ProductEntries[Len(conn.products) + 1],
                                     FALSE)
           u == then_product_combos(update_products_list(gui, r.conn), r.conn)
       IN  /\ conn' = r.conn
           /\ disk' = IF r.commit THEN r.conn ELSE disk
           /\ messages' = <<SuccessInfo>>
           /\ gui' = u.gui
           /\ Handled("add_product", r.error, FALSE)
    /\ UNCHANGED <<db_call, partial, custVars, orderVars, anaVars>>

\* the user picks a value of the customer selector
SelectCustomer ==
    /\ Running
    /\ \E k \in 1..Len(gui.customer_combo) :
          gui' = [gui EXCEPT !.customer_var = gui.customer_combo[k]]
    /\ messages' = <<>>
    /\ Handled("select_customer", "none", FALSE)
    /\ UNCHANGED <<gwVars, custVars, orderVars, anaVars>>

\* the user picks a value of the product selector
SelectProduct ==
    /\ Running
    /\ \E k \in 1..Len(gui.product_combo) :
          gui' = [gui EXCEPT !.product_var = gui.product_combo[k]]
    /\ messages' = <<>>
    /\ Handled("select_product", "none", FALSE)
    /\ UNCHANGED <<gwVars, custVars, orderVars, anaVars>>

\* the user types a quantity
EnterQuantity ==
    /\ Running
    /\ \E text \in QuantityTexts \ {gui.quantity_var} :
          gui' = [gui EXCEPT !.quantity_var = text]
    /\ messages' = <<>>
    /\ Handled("enter_quantity", "none", FALSE)
    /\ UNCHANGED <<gwVars, custVars, orderVars, anaVars>>

\* ShopApp.add_product_to_order, while the pending order has fewer than
\* limit pairs
add_product_to_order(limit) ==
    /\ Running
    /\ Len(gui.current_order_items) < limit
    /\ LET quantity == int(gui.quantity_var)
           products == Database_get_all_products(conn, FALSE).ret
           found == {k \in 1..Len(products) : products[k].id = split_id(gui.product_var)}
           product == products[CHOOSE k \in found : \A j \in found : k <= j]
       IN  IF gui.product_var = <<>>
           THEN /\ messages' = <<WarningBox>>
                /\ gui' = gui
                /\ Handled("add_product_to_order", "none", FALSE)
           ELSE IF quantity.raised
           THEN /\ messages' = <<ErrorBox>>
                /\ gui' = gui
                /\ Handled("add_product_to_order", "ValueError", FALSE)
           ELSE IF found = {}
           THEN /\ messages' = <<ErrorBox>>
                /\ gui' = gui
                /\ Handled("add_product_to_order", "none", FALSE)
           ELSE /\ messages' = <<>>
                /\ gui' = [gui EXCEPT
                             !.current_order_items = Append(@, <<product, quantity.value>>),
                             !.order_items_list =
                                 Append(@, <<product.name, quantity.value,
                                             product.price * quantity.value>>),
                             !.product_var = <<>>,
                             !.quantity_var = <<"1">>]
                /\ Handled("add_product_to_order", "none", FALSE)
    /\ UNCHANGED <<gwVars, custVars, orderVars, anaVars>>

GuiAddProductToOrder == add_product_to_order(MaxPending)

\* the same handler in an order form that takes a second pair
GuiAddSecondProductToOrder == add_product_to_order(MaxFormPairs)

\* the loop of create_order over the pending pairs: Order.add_product
RECURSIVE add_products(_, _, _)
add_products(its, pending, k) ==
    IF k > Len(pending) THEN [items |-> its, raised |-> FALSE]
    ELSE LET r == add_product(its, pending[k][1], pending[k][2])
         IN  IF r.raised THEN r ELSE add_products(r.items, pending, k + 1)

\* ShopApp.create_order
GuiCreateOrder ==
    /\ Running
    /\ Len(conn.orders) < MaxGuiOrders
    /\ LET built == add_products(<<>>, gui.current_order_items, 1)
           order == [customer_id |-> split_id(gui.customer_var), order_date |-> 0,
                     status |-> "novyj", items |-> built.items]
           r == Database_add_order(conn, order, FALSE)
           u == update_orders_list(clear_order_form(gui), r.conn)
       IN  IF gui.customer_var = <<>> \/ gui.current_order_items = <<>>
           THEN /\ messages' = <<WarningBox>>
                /\ Handled("create_order", "none", FALSE)
                /\ UNCHANGED <<conn, disk, gui>>
           ELSE IF built.raised
           THEN /\ messages' = <<ErrorBox>>
                /\ Handled("create_order", "ValueError", FALSE)
                /\ UNCHANGED <<conn, disk, gui>>
           ELSE /\ conn' = r.conn
                /\ disk' = IF r.commit THEN r.conn ELSE disk
                /\ IF r.ret = -1
                   THEN /\ messages' = <<ErrorBox>>
                        /\ gui' = gui
                   ELSE /\ messages' = IF u.raised THEN <<SuccessInfo, ErrorBox>>
                                       ELSE <<SuccessInfo>>
                        /\ gui' = u.gui
                /\ Handled("create_order", r.error, FALSE)
    /\ UNCHANGED <<db_call, partial, custVars, orderVars, anaVars>>

\* a placeholder has run: the tables and the widgets as they were before it
Placeholder(handler) ==
    gui_call' = [handler |-> handler, error |-> "none", raised |-> FALSE,
                 before |-> [conn |-> conn, disk |-> disk, gui |-> gui]]

\* ShopApp.delete_customer; selection: the row of the list that is selected
\* (0: none), confirm: the answer to the question
DeleteCustomer ==
    /\ Running
    /\ \E selection \in 0..Len(gui.customers_tree), confirm \in BOOLEAN :
        IF selection = 0
        THEN /\ messages' = <<WarningBox>>
             /\ conn' = conn
        ELSE IF confirm
        THEN /\ messages' = <<Confirmation, PlaceholderInfo>>
             /\ conn' = delete_customer_todo(conn, gui.customers_tree[selection].id)
        ELSE /\ messages' = <<Confirmation>>
             /\ conn' = conn
    /\ Placeholder("delete_customer")
    /\ UNCHANGED <<disk, gui, db_call, partial, custVars, orderVars, anaVars>>

\* ShopApp.delete_product
DeleteProduct ==
    /\ Running
    /\ \E selection \in 0..Len(gui.products_tree), confirm \in BOOLEAN :
        IF selection = 0
        THEN /\ messages' = <<WarningBox>>
             /\ conn' = conn
        ELSE IF confirm
        THEN /\ messages' = <<Confirmation, PlaceholderInfo>>
             /\ conn' = delete_product_todo(conn, gui.products_tree[selection].id)
        ELSE /\ messages' = <<Confirmation>>
             /\ conn' = conn
    /\ Placeholder("delete_product")
    /\ UNCHANGED <<disk, gui, db_call, partial, custVars, orderVars, anaVars>>

\* ShopApp.view_order_details
ViewOrderDetails ==
    /\ Running
    /\ \E selection \in 0..Len(gui.orders_tree) :
          messages' = IF selection = 0 THEN <<WarningBox>> ELSE <<PlaceholderInfo>>
    /\ Placeholder("view_order_details")
    /\ UNCHANGED <<conn, disk, gui, db_call, partial, custVars, orderVars, anaVars>>

\* ShopApp.change_order_status
ChangeOrderStatus ==
    /\ Running
    /\ \E selection \in 0..Len(gui.orders_tree) :
          messages' = IF selection = 0 THEN <<WarningBox>> ELSE <<PlaceholderInfo>>
    /\ Placeholder("change_order_status")
    /\ UNCHANGED <<conn, disk, gui, db_call, partial, custVars, orderVars, anaVars>>

\* ShopApp.import_data into the customers table; file: what the dialog
\* returns (no file: cancelled)
ImportData ==
    /\ Running
    /\ \E format \in {"csv", "json"}, fault \in BOOLEAN,
          file \in Files \cup {[kind |-> "cancelled", rows |-> <<>>]} :
        LET r == IF format = "csv"
                 THEN Database_import_from_csv(conn, file, fault)
                 ELSE Database_import_from_json(conn, file, fault)
            u == then_product_combos(
                     then_orders_list(
                         then_products_list(update_customers_list(gui, r.conn), r.conn),
                         r.conn),
                     r.conn)
        IN  IF file.kind = "cancelled"
            THEN /\ messages' = <<>>
                 /\ Handled("import_data", "none", FALSE)
                 /\ UNCHANGED <<conn, disk, gui>>
            ELSE /\ conn' = r.conn
                 /\ disk' = IF r.commit THEN r.conn ELSE disk
                 /\ IF r.error \in UncaughtErrors
                    THEN /\ messages' = <<ErrorBox>>
                         /\ gui' = gui
                    ELSE /\ messages' = IF u.raised THEN <<SuccessInfo, ErrorBox>>
                                        ELSE <<SuccessInfo>>
                         /\ gui' = u.gui
                 /\ Handled("import_data", r.error, FALSE)
    /\ UNCHANGED <<db_call, partial, custVars, orderVars, anaVars>>

\* ShopApp.export_data
ExportData ==
    /\ Running
    /\ \E format \in {"csv", "json"}, target \in ExportTargets, fault \in BOOLEAN :
        LET r == IF format = "csv"
                 THEN Database_export_to_csv(conn, target, fault)
                 ELSE Database_export_to_json(conn, target, fault)
        IN  IF target = "cancelled"
            THEN /\ messages' = <<>>
                 /\ Handled("export_data", "none", FALSE)
            ELSE /\ messages' = IF r.error \in UncaughtErrors THEN <<ErrorBox>>
                                ELSE <<SuccessInfo>>
                 /\ Handled("export_data", r.error, FALSE)
    /\ UNCHANGED <<conn, disk, gui, db_call, partial, custVars, orderVars, anaVars>>

InitGui ==
    /\ gui = BlankGui
    /\ messages = <<>>
    /\ gui_call = [handler |-> "__init__", error |-> "none", raised |-> FALSE,
                   before |-> NoSnapshot]

\* the import and export tab, with the customers form
NextGuiImport ==
    \/ GuiStart
    \/ GuiAddCustomer
    \/ ImportData
    \/ ExportData

\* the customers, products and orders tabs
NextGui ==
    \/ GuiStart
    \/ GuiAddCustomer
    \/ GuiAddProduct
    \/ SelectCustomer
    \/ SelectProduct
    \/ EnterQuantity
    \/ GuiAddProductToOrder
    \/ GuiCreateOrder
    \/ DeleteCustomer
    \/ DeleteProduct
    \/ ViewOrderDetails
    \/ ChangeOrderStatus

\* the orders tab with a pending order of several pairs
NextGuiOrder ==
    \/ GuiStart
    \/ GuiAddCustomer
    \/ GuiAddProduct
    \/ SelectCustomer
    \/ SelectProduct
    \/ GuiAddSecondProductToOrder
    \/ GuiCreateOrder

Init == InitCustomer /\ InitOrder /\ InitAnalysis /\ InitGateway /\ InitGui

NextCustomer == NewCustomer \/ SetEmail \/ SetPhone \/ SetAddress \/ SetId

NextOrder == AddProduct \/ TotalCost

\* the inputs of the flattening: known and unknown customers and products
FlattenStoreOrder ==
    StoreOrder(MaxFlattenOrders, {1, 2}, {0},
               { <<>>,
                 << <<Catalog[1], 2>> >>, << <<Catalog[3], 1>> >>,
                 << <<Catalog[1], 2>>, <<Catalog[1], 2>> >>,
                 << <<Catalog[1], 2>>, <<Catalog[3], 1>> >>,
                 << <<Catalog[3], 1>>, <<Catalog[1], 2>> >>,
                 << <<Catalog[3], 1>>, <<Catalog[3], 1>> >> })

NextFlatten == StoreCustomer \/ StoreProduct \/ FlattenStoreOrder \/ GetOrdersDataframe

\* the inputs of the ranking: orders of no, one or two line items
TopStoreOrder ==
    StoreOrder(MaxOrders, {1, 2}, {0},
               { <<>>, << <<Catalog[1], 1>> >>, << <<Catalog[1], 1>>, <<Catalog[2], 1>> >> })

NextTop == StoreCustomer \/ TopStoreOrder \/ TopCustomersByOrders

\* the inputs of the time series: dates over three calendar days
DynamicsStoreOrder ==
    StoreOrder(MaxOrders, {1}, 0..MaxTick, ItemLists({<<Catalog[1], 1>>}))

NextDynamics == DynamicsStoreOrder \/ OrdersDynamics

\* the inputs of the graph: orders of three customers over two products
GraphStoreOrder ==
    StoreOrder(MaxOrders, {1, 2, 3}, {0},
               { its \in ItemLists({<<Catalog[1], 1>>, <<Catalog[2], 1>>}) :
                   \A i, j \in 1..Len(its) : i < j => its[i][1].id < its[j][1].id })

NextGraph == GraphStoreOrder \/ CustomerConnectionsGraph

\* the inputs of the sales breakdown: a catalogue of more than ten products,
\* the last of which may itself be named like the collapsed tail, and a
\* product of negative price that is not in the catalogue
ProductName(k) == "P" \o Digit(k \div 10) \o Digit(k % 10)
SalesProduct(k) == [id |-> k, name |-> ProductName(k), price |-> 2 * k + 1]
Refund == [id |-> 0, name |-> "Refund", price |-> -1]

SalesStoreProduct ==
    /\ Len(db_products) < MaxSalesProducts
    /\ LET k == Len(db_products) + 1
       IN  \E nm \in {ProductName(k)} \cup (IF k > TopCategories THEN {OtherLabel} ELSE {}) :
               db_products' = Append(db_products, [SalesProduct(k) EXCEPT !.name = nm])
    /\ report' = NoReport
    /\ UNCHANGED <<db_customers, db_orders, custVars, orderVars, gwVars, guiVars>>

\* the n-th order holds the next SalesLinesPerOrder products of the catalogue,
\* all in quantity 1 or all in quantity 2, and perhaps one more line
SalesItemLists(n) ==
    LET base(q) == [i \in 1..SalesLinesPerOrder |->
                      <<SalesProduct((n - 1) * SalesLinesPerOrder + i), q>>]
    IN  UNION { { base(q), Append(base(q), <<SalesProduct(1), 1>>),
                  Append(base(q), <<Refund, 1>>) } : q \in {1, 2} }

SalesStoreOrder ==
    StoreOrder(MaxSalesOrders, {1}, {0}, SalesItemLists(Len(db_orders) + 1))

NextSales == SalesStoreProduct \/ SalesStoreOrder \/ SalesByCategory

SpecCustomer == Init /\ [][NextCustomer]_vars

SpecOrder == Init /\ [][NextOrder]_vars

SpecFlatten == Init /\ [][NextFlatten]_vars

SpecTop == Init /\ [][NextTop]_vars

SpecDynamics == Init /\ [][NextDynamics]_vars

SpecGraph == Init /\ [][NextGraph]_vars

SpecSales == Init /\ [][NextSales]_vars

\* the inputs of the geography: the first customers live at addresses of
\* several shapes, every customer may live in a city of their own
CityAddress(n) == <<"c", Digit(n \div 10), Digit(n % 10), ",", " ", "x", "1">>

GeoAddresses ==
    { <<" ", "c", "0", "1", " ", ",", "x">>,
      <<"c", "0", "1", ",", "x", ",", "c", "0", "2">>,
      <<"TAB", "c", "0", "1", " ", "x", " ", "1", "LF">>,
      <<",", "c", "0", "1", "x", "x">> }

GeoStoreCustomer ==
    LET n == Len(db_customers) + 1
    IN  StoreCustomerRow(MaxGeoCustomers, {<<"Ivan", "Ivanov">>}, {RowEmail(n)},
                         {CityAddress(n)} \cup (IF n <= MaxGeoVaried THEN GeoAddresses ELSE {}))

NextGeo == GeoStoreCustomer \/ CustomerGeography

SpecGeo == Init /\ [][NextGeo]_vars

\* the inputs of the empty-input policy: customer rows as add_customer and an
\* import leave them, products, and at most one order
EmptyStoreCustomer ==
    StoreCustomerRow(MaxCustomers, {<<"Ivan", "Ivanov">>},
                     {RowEmail(Len(db_customers) + 1), BadEmail}, {RowAddress})

EmptyStoreOrder == StoreOrder(1, {1}, {0}, ItemLists({<<Catalog[1], 1>>}))

NextEmpty ==
    \/ EmptyStoreCustomer
    \/ StoreProduct
    \/ EmptyStoreOrder
    \/ TopCustomersByOrders
    \/ OrdersDynamics
    \/ CustomerConnectionsGraph
    \/ SalesByCategory
    \/ CustomerGeography

SpecEmpty == Init /\ [][NextEmpty]_vars

SpecGateway == Init /\ [][NextGateway]_vars

SpecGuiImport == Init /\ [][NextGuiImport]_vars

SpecGui == Init /\ [][NextGui]_vars

SpecGuiOrder == Init /\ [][NextGuiOrder]_vars

SpecGatewayOrders == Init /\ [][NextGatewayOrders]_vars

(***************************************************************************)
(* The contact-field rules as the data model states them: the whole value  *)
(* has the shape of the pattern (no character after it).                   *)
(***************************************************************************)
EmailRule(v) == email_pattern(v, Len(v))
PhoneRule(v) == phone_pattern(v, Len(v))
AddressRule(v) == Len(strip(v)) >= 5

FieldRule(field, v) ==
    CASE field = "email" -> EmailRule(v)
      [] field = "phone" -> PhoneRule(v)
      [] field = "address" -> AddressRule(v)

HoldsValidValues(obj) ==
    /\ obj # NoCustomer
    /\ EmailRule(obj.email)
    /\ PhoneRule(obj.phone)
    /\ AddressRule(obj.address)

\* C1: for a customer holding valid values, an assignment to email, phone or
\* address of a value that violates the field's rule raises ValueError and
\* leaves the object as it was, and a value that satisfies the rule is stored
\* (the other attributes unchanged).
C1_SetterContract ==
    (cust_call.op = "set" /\ HoldsValidValues(cust_before)) =>
        IF FieldRule(cust_call.field, cust_call.value)
        THEN /\ ~cust_raised
             /\ customer = [cust_before EXCEPT ![cust_call.field] = cust_call.value]
        ELSE /\ cust_raised
             /\ customer = cust_before

\* C2: every customer object that exists holds an email, a phone and an
\* address that satisfy their rules together, and a constructor call with an
\* invalid field raises and yields no object.
C2_NeverHalfValid ==
    /\ customer # NoCustomer => HoldsValidValues(customer)
    /\ (cust_call.op = "init" /\ ~(/\ EmailRule(cust_call.email)
                                    /\ PhoneRule(cust_call.phone)
                                    /\ AddressRule(cust_call.address))) =>
            (cust_raised /\ customer = cust_before)

\* C21: the id of a customer object never changes once the object is
\* constructed: no operation on the object, an assignment to one of its
\* properties included, leaves it with another id than it had.
C21_IdImmutable ==
    [][(customer # NoCustomer /\ cust_call'.op # "init") =>
            customer'.id = customer.id]_vars

(***************************************************************************)
(* Claims about Order.                                                     *)
(***************************************************************************)
LastCall == order_calls[Len(order_calls)]

\* C3: add_product with quantity < 1 raises ValueError and leaves the item
\* list unchanged (and a quantity >= 1 is not refused), so every line item of
\* the order has quantity >= 1.
C3_QuantityAtLeastOne ==
    /\ \A k \in 1..Len(items) : items[k][2] >= 1
    /\ (order_calls # <<>> /\ order_ret = NoReturn) =>
          /\ order_raised = (LastCall[2] < 1)
          /\ LastCall[2] < 1 => items = order_before

\* a refused call made on an order that already has a line item
C3_Witness ==
    /\ order_calls # <<>>
    /\ order_ret = NoReturn
    /\ LastCall[2] < 1
    /\ order_raised
    /\ Len(items) >= 1

\* the pairs of the calls of the log that did not raise, in call order
RECURSIVE AcceptedPairs(_)
AcceptedPairs(log) ==
    IF log = <<>> THEN <<>>
    ELSE LET c == log[Len(log)]
             front == AcceptedPairs(SubSeq(log, 1, Len(log) - 1))
         IN  IF c[3] THEN front ELSE front \o << <<c[1], c[2]>> >>

\* C4: items is the sequence of the accepted (product, quantity) pairs in call
\* order: one pair appended per accepted call, none reordered or merged, and
\* nothing from a refused call.
C4_ItemsAreAcceptedCallsInOrder == items = AcceptedPairs(order_calls)

\* the same product accepted twice, with another product in between or a
\* refused call in the log
C4_Witness ==
    /\ Len(items) >= 2
    /\ \E i, j \in 1..Len(items) : i < j /\ items[i][1] = items[j][1]
    /\ \E k \in 1..Len(order_calls) : order_calls[k][3]
    /\ \E i, j \in 1..Len(items) : items[i][1] # items[j][1]

\* the sum of price x quantity over a set of positions of the log, taking the
\* accepted calls only
RECURSIVE LogSum(_, _)
LogSum(log, S) ==
    IF S = {} THEN 0
    ELSE LET k == CHOOSE x \in S : TRUE
         IN  (IF log[k][3] THEN 0 ELSE log[k][1].price * log[k][2])
             + LogSum(log, S \ {k})

\* C5: total_cost() returns the sum over the line items of price x quantity,
\* 0 for an order without line items, and reflects every add_product accepted
\* before the call.
C5_TotalCostIsSum ==
    order_ret # NoReturn =>
        /\ order_ret.value = LogSum(order_calls, 1..Len(order_calls))
        /\ items = <<>> => order_ret.value = 0

\* total_cost called on an order with two different products, one of them
\* with quantity 2
C5_Witness ==
    /\ order_ret # NoReturn
    /\ Len(items) >= 2
    /\ \E i, j \in 1..Len(items) : items[i][1] # items[j][1]
    /\ \E i \in 1..Len(items) : items[i][2] = 2

(***************************************************************************)
(* Claims about the analyzer, stated over what the gateway returns.        *)
(***************************************************************************)
OrderIndexes == 1..Len(db_orders)
OrdersWithLines == {i \in OrderIndexes : db_orders[i].items # <<>>}

\* the number of line items of the orders at the positions S
RECURSIVE LineCount(_)
LineCount(S) ==
    IF S = {} THEN 0
    ELSE LET i == CHOOSE x \in S : TRUE
         IN  Len(db_orders[i].items) + LineCount(S \ {i})

KnownCustomerIds == {db_customers[k].id : k \in 1..Len(db_customers)}
KnownProductIds == {db_products[k].id : k \in 1..Len(db_products)}

\* "First Last" of the customer with the id, or the placeholder
DisplayName(cid) ==
    IF cid \in KnownCustomerIds
    THEN LET c == db_customers[CHOOSE k \in 1..Len(db_customers) : db_customers[k].id = cid]
         IN  c.first_name \o " " \o c.last_name
    ELSE UnknownCustomer

\* the name of the product with the id in the product set, or the placeholder
ProductDisplayName(pid) ==
    IF pid \in KnownProductIds
    THEN db_products[CHOOSE k \in 1..Len(db_products) : db_products[k].id = pid].name
    ELSE UnknownProduct

\* C6: get_orders_dataframe returns one row per (order, line item): the row
\* count is the sum of the orders' line-item counts, each order has as many
\* rows as line items (none when it has none), and no row is dropped for an
\* unknown customer or product.
C6_OneRowPerLineItem ==
    (report.kind = "get_orders_dataframe" /\ report.figure = "frame") =>
        /\ Len(report.df) = LineCount(OrderIndexes)
        /\ \A i \in OrderIndexes :
              Cardinality({k \in 1..Len(report.df) : report.df[k].order_id = db_orders[i].id})
                  = Len(db_orders[i].items)

\* a frame of an order without line items, an order with two, a row of an
\* unknown customer and a row of an unknown product
C6_Witness ==
    /\ report.kind = "get_orders_dataframe"
    /\ report.figure = "frame"
    /\ \E i \in OrderIndexes : db_orders[i].items = <<>>
    /\ \E i \in OrderIndexes : Len(db_orders[i].items) = 2
    /\ \E k \in 1..Len(report.df) : report.df[k].customer_id \notin KnownCustomerIds
    /\ \E k \in 1..Len(report.df) : report.df[k].product_id \notin KnownProductIds
    /\ db_customers # <<>>
    /\ db_products # <<>>

\* C7: the row of line item k of order i names the customer with the order's
\* customer_id ("First Last") or the placeholder when there is none, names the
\* product with the line item's product id or the placeholder, and its total
\* is the line item's price x quantity.
C7_RowsResolveNames ==
    (report.kind = "get_orders_dataframe" /\ report.figure = "frame") =>
        \A i \in OrderIndexes : \A k \in 1..Len(db_orders[i].items) :
            LET pos == LineCount(1..(i - 1)) + k
                product == db_orders[i].items[k][1]
                quantity == db_orders[i].items[k][2]
            IN  /\ pos \in 1..Len(report.df)
                /\ report.df[pos].order_id = db_orders[i].id
                /\ report.df[pos].customer_id = db_orders[i].customer_id
                /\ report.df[pos].customer_name = DisplayName(db_orders[i].customer_id)
                /\ report.df[pos].product_id = product.id
                /\ report.df[pos].product_name = ProductDisplayName(product.id)
                /\ report.df[pos].quantity = quantity
                /\ report.df[pos].total = product.price * quantity

\* a frame with a row of a known customer and a known product in quantity 2,
\* and a row with both placeholders
C7_Witness ==
    /\ report.kind = "get_orders_dataframe"
    /\ report.figure = "frame"
    /\ \E k \in 1..Len(report.df) :
          /\ report.df[k].customer_name = "Petr Petrov"
          /\ report.df[k].product_name = "Laptop"
          /\ report.df[k].quantity = 2
          /\ report.df[k].total = 10
          /\ report.df[k].order_id # report.df[k].customer_id
    /\ \E k \in 1..Len(report.df) :
          /\ report.df[k].customer_name = UnknownCustomer
          /\ report.df[k].product_name = UnknownProduct

\* the customer-name groups of the flattened rows and their distinct orders
NameGroups == {DisplayName(db_orders[i].customer_id) : i \in OrdersWithLines}
DistinctOrders(name) ==
    Cardinality({i \in OrdersWithLines : DisplayName(db_orders[i].customer_id) = name})

\* C8: top_customers_by_orders(top_n) shows min(top_n, number of groups)
\* customer-name groups, each with its number of distinct orders (not rows),
\* in descending order of that number, and no group left out has more orders
\* than a group shown; so a customer with 2 orders stands before one with 1.
C8_TopCustomersByDistinctOrders ==
    (report.kind = "top_customers_by_orders" /\ report.figure = "bar") =>
        LET bars == report.bars
            shown == {bars[i][1] : i \in 1..Len(bars)}
        IN  /\ Len(bars) <= report.top_n
            /\ Len(bars) = IF report.top_n < Cardinality(NameGroups)
                           THEN report.top_n ELSE Cardinality(NameGroups)
            /\ \A i \in 1..Len(bars) :
                  /\ bars[i][1] \in NameGroups
                  /\ bars[i][2] = DistinctOrders(bars[i][1])
            /\ \A i, j \in 1..Len(bars) :
                  i < j => (bars[i][2] >= bars[j][2] /\ bars[i][1] # bars[j][1])
            /\ \A g \in NameGroups \ shown : \A i \in 1..Len(bars) :
                  bars[i][2] >= DistinctOrders(g)

\* top_n = 2: a customer with two orders of one line item each stands before
\* a customer with one order of two line items
C8_Witness ==
    /\ report.kind = "top_customers_by_orders"
    /\ report.top_n = 2
    /\ Len(report.bars) = 2
    /\ report.bars[1][2] = 2
    /\ report.bars[2][2] = 1
    /\ \E i \in OrdersWithLines :
          /\ DisplayName(db_orders[i].customer_id) = report.bars[2][1]
          /\ Len(db_orders[i].items) = 2
    /\ \A i \in OrdersWithLines :
          DisplayName(db_orders[i].customer_id) = report.bars[1][1]
              => Len(db_orders[i].items) = 1

CustomersInRows == {db_orders[i].customer_id : i \in OrdersWithLines}
ProductsOf(c) ==
    UNION { {db_orders[i].items[k][1].id : k \in 1..Len(db_orders[i].items)} :
              i \in {j \in OrderIndexes : db_orders[j].customer_id = c} }
CommonProducts(a, b) == Cardinality(ProductsOf(a) \cap ProductsOf(b))

\* C10: the graph has one node per customer of the flattened rows, sized by
\* the customer's number of distinct product ids, and for every pair of
\* distinct customers an edge iff they share at least min_common_products
\* product ids, weighted by exactly that number; there is no other edge.
C10_GraphEdges ==
    (report.kind = "customer_connections_graph" /\ report.figure # NoDataText) =>
        /\ DOMAIN report.nodes = CustomersInRows
        /\ \A c \in CustomersInRows : report.nodes[c].size = Cardinality(ProductsOf(c))
        /\ \A e \in DOMAIN report.edges :
              e \subseteq CustomersInRows /\ Cardinality(e) = 2
        /\ \A a, b \in CustomersInRows :
              a # b =>
                /\ ({a, b} \in DOMAIN report.edges)
                      <=> (CommonProducts(a, b) >= report.min_common_products)
                /\ ({a, b} \in DOMAIN report.edges)
                      => report.edges[{a, b}].weight = CommonProducts(a, b)

\* min_common_products = 1 and two customers who each bought the same single
\* product: exactly one edge, of weight 1
C10_Witness ==
    /\ report.kind = "customer_connections_graph"
    /\ report.min_common_products = 1
    /\ Cardinality(CustomersInRows) = 2
    /\ \A c \in CustomersInRows : Cardinality(ProductsOf(c)) = 1
    /\ Cardinality(DOMAIN report.edges) = 1
    /\ \A e \in DOMAIN report.edges : report.edges[e].weight = 1

(***************************************************************************)
(* Claims about the sales breakdown and the empty-input policy.            *)
(***************************************************************************)
\* the product-name groups of the flattened rows and the sum of their totals
LinePositions == UNION { {<<i, k>> : k \in 1..Len(db_orders[i].items)} : i \in OrderIndexes }
LineName(p) == ProductDisplayName(db_orders[p[1]].items[p[2]][1].id)
LineTotal(p) == db_orders[p[1]].items[p[2]][1].price * db_orders[p[1]].items[p[2]][2]
ProductGroups == {LineName(p) : p \in LinePositions}

RECURSIVE SumLines(_)
SumLines(S) ==
    IF S = {} THEN 0
    ELSE LET p == CHOOSE x \in S : TRUE IN LineTotal(p) + SumLines(S \ {p})

GroupTotal(name) == SumLines({p \in LinePositions : LineName(p) = name})

RECURSIVE SumGroups(_)
SumGroups(G) ==
    IF G = {} THEN 0
    ELSE LET g == CHOOSE x \in G : TRUE IN GroupTotal(g) + SumGroups(G \ {g})

\* C11: sales_by_category groups the rows by product display name, sums the
\* line totals per group and sorts descending; with more than 10 groups the
\* result is the 10 largest named entries followed by one 'Other' entry whose
\* value is the sum of all the groups beyond the 10th, and with 10 or fewer
\* groups it is the groups alone.
C11_SalesCollapse ==
    (report.kind = "sales_by_category" /\ report.figure \in {"pie", ValueErrorRaised}
        /\ ~Customers.raised) =>
        LET data == report.sales_data
            n == Cardinality(ProductGroups)
            named == IF n > TopCategories THEN TopCategories ELSE n
            shown == {data[i][1] : i \in 1..named}
        IN  /\ Len(data) = IF n > TopCategories THEN TopCategories + 1 ELSE n
            /\ \A i \in 1..named :
                  /\ data[i][1] \in ProductGroups
                  /\ data[i][2] = GroupTotal(data[i][1])
            /\ \A i, j \in 1..named :
                  i < j => (data[i][2] >= data[j][2] /\ data[i][1] # data[j][1])
            /\ \A g \in ProductGroups \ shown : \A i \in 1..named :
                  data[i][2] >= GroupTotal(g)
            /\ n > TopCategories =>
                  /\ data[TopCategories + 1][1] = OtherLabel
                  /\ data[TopCategories + 1][2] = SumGroups(ProductGroups \ shown)

ReportKinds ==
    {"top_customers_by_orders", "orders_dynamics", "customer_connections_graph",
     "sales_by_category", "customer_geography"}

\* C12: with an empty order set each of the five report operations returns
\* the 'no data' / 'insufficient data' marker and does not raise, whatever
\* the customer and product sets contain.
C12_EmptyOrdersGiveMarker ==
    (db_orders = <<>> /\ report.kind \in ReportKinds) =>
        report.figure \in {NoDataText, InsufficientDataText}

(***************************************************************************)
(* Claims about the graph without edges and the geography.                 *)
(***************************************************************************)
\* C13: when the flattened rows are not empty and no two customers share at
\* least min_common_products product ids (a single customer included), the
\* call returns the 'insufficient data' marker, calls no layout and draws no
\* node; when some pair does, the graph is laid out and its nodes drawn.
C13_NoEdgesInsufficientData ==
    (report.kind = "customer_connections_graph" /\ report.figure # ValueErrorRaised
        /\ OrdersWithLines # {}) =>
        IF \E a, b \in CustomersInRows :
              a # b /\ CommonProducts(a, b) >= report.min_common_products
        THEN /\ report.figure = "graph"
             /\ report.layout
             /\ report.drawn = CustomersInRows
        ELSE /\ report.figure = InsufficientDataText
             /\ ~report.layout
             /\ report.drawn = {}

\* min_common_products = 2 and two customers with one product in common (and
\* so a graph of two nodes without an edge)
C13_Witness ==
    /\ report.kind = "customer_connections_graph"
    /\ report.figure = InsufficientDataText
    /\ report.min_common_products = 2
    /\ Cardinality(CustomersInRows) = 2
    /\ \E a, b \in CustomersInRows : a # b /\ CommonProducts(a, b) = 1
    /\ ~report.layout

\* the city token as the claim states it: the characters before the first
\* comma, or all of them, without the whitespace at both ends
RECURSIVE Trimmed(_)
Trimmed(x) ==
    IF x = <<>> THEN x
    ELSE IF x[1] \in Whitespace THEN Trimmed(SubSeq(x, 2, Len(x)))
    ELSE IF x[Len(x)] \in Whitespace THEN Trimmed(SubSeq(x, 1, Len(x) - 1))
    ELSE x

CityToken(x) ==
    IF \E k \in 1..Len(x) : x[k] = ","
    THEN Trimmed(SubSeq(x, 1, (CHOOSE k \in 1..Len(x) :
                                  x[k] = "," /\ \A j \in 1..(k - 1) : x[j] # ",") - 1))
    ELSE Trimmed(x)

CityTokens == {CityToken(db_customers[k].address) : k \in 1..Len(db_customers)}
Inhabitants(token) ==
    Cardinality({k \in 1..Len(db_customers) : CityToken(db_customers[k].address) = token})

\* C14: every bar of customer_geography stands for a city token (the part of
\* the address before the first comma, or the whole address when it has no
\* comma, without surrounding whitespace) and counts all the customers whose
\* token is that one; with at most 15 tokens every token has its bar.
C14_CityTokenGroups ==
    (report.kind = "customer_geography" /\ report.figure = "bar") =>
        /\ \A i \in 1..Len(report.bars) :
              /\ report.bars[i][1] \in CityTokens
              /\ report.bars[i][2] = Inhabitants(report.bars[i][1])
        /\ \A i, j \in 1..Len(report.bars) :
              i # j => report.bars[i][1] # report.bars[j][1]
        /\ Cardinality(CityTokens) <= TopCities =>
              {report.bars[i][1] : i \in 1..Len(report.bars)} = CityTokens

\* two customers in the same city, one with whitespace around the token and
\* one with two commas, and a third whose address has no comma and is a
\* token of its own
C14_Witness ==
    /\ report.kind = "customer_geography"
    /\ report.figure = "bar"
    /\ Len(db_customers) = 3
    /\ \E k \in 1..3 : db_customers[k].address = <<" ", "c", "0", "1", " ", ",", "x">>
    /\ \E k \in 1..3 : db_customers[k].address = <<"c", "0", "1", ",", "x", ",", "c", "0", "2">>
    /\ \E k \in 1..3 : db_customers[k].address = <<"TAB", "c", "0", "1", " ", "x", " ", "1", "LF">>
    /\ report.bars = << << <<"c", "0", "1">>, 2 >>, << <<"c", "0", "1", " ", "x", " ", "1">>, 1 >> >>

\* the sum of the counts of the bars
RECURSIVE SumBars(_, _)
SumBars(bars, i) == IF i > Len(bars) THEN 0 ELSE bars[i][2] + SumBars(bars, i + 1)

\* C15: customer_geography shows the cities in descending order of customer
\* count, min(15, number of cities) of them; no city left out has more
\* customers than one shown, and there is no entry for the cities left out.
C15_TopCitiesCap ==
    (report.kind = "customer_geography" /\ report.figure = "bar") =>
        LET bars == report.bars
            shown == {bars[i][1] : i \in 1..Len(bars)}
        IN  /\ Len(bars) = IF Cardinality(CityTokens) > TopCities
                           THEN TopCities ELSE Cardinality(CityTokens)
            /\ \A i, j \in 1..Len(bars) : i < j => bars[i][2] >= bars[j][2]
            /\ shown \subseteq CityTokens
            /\ Cardinality(shown) = Len(bars)
            /\ \A c \in CityTokens \ shown : \A i \in 1..Len(bars) :
                  bars[i][2] >= Inhabitants(c)

\* more than 15 cities, one of them with two customers: 15 bars, the first of
\* them of 2, and the counts shown sum to less than the number of customers
C15_Witness ==
    /\ report.kind = "customer_geography"
    /\ report.figure = "bar"
    /\ Cardinality(CityTokens) > TopCities
    /\ Len(report.bars) = TopCities
    /\ report.bars[1][2] = 2
    /\ SumBars(report.bars, 1) < Len(db_customers)

(***************************************************************************)
(* Claims about the persistence gateway.                                   *)
(***************************************************************************)
\* C16: add_customer, add_product and add_order return -1 and
\* get_all_customers, get_all_products and get_all_orders return an empty
\* list when they meet a failure, and no exception leaves any of them,
\* whatever the tables hold.
C16_SentinelNotException ==
    /\ db_call.op \in {"add_customer", "add_product", "add_order"} =>
          /\ ~db_call.raised
          /\ db_call.error # "none" => db_call.ret = -1
    /\ db_call.op \in {"get_all_customers", "get_all_products", "get_all_orders"} =>
          /\ ~db_call.raised
          /\ db_call.error # "none" => db_call.ret = <<>>

\* C17: when add_customer, add_product, add_order, import_from_csv or
\* import_from_json has returned, with or without a failure, the connection
\* holds no uncommitted write: what it sees is what is committed.
C17_NoOpenTransaction ==
    db_call.op \in {"add_customer", "add_product", "add_order",
                    "import_from_csv", "import_from_json"} =>
        conn = disk

\* the column values of a stored row
ValuesOf(row) ==
    [first_name |-> row.first_name, last_name |-> row.last_name, email |-> row.email,
     phone |-> row.phone, address |-> row.address]

\* C18: when an import fails at row k > 1, the table holds the rows it held
\* before and after them the rows 1..k-1 of the file, none of the rows from k
\* on; and the rows 1..k-1 stay in the table, visible to every later read.
C18_PartialImportStays ==
    /\ (db_call.op \in {"import_from_csv", "import_from_json"} /\ db_call.failed_at > 1) =>
          LET before == db_call.before
              k == db_call.failed_at
          IN  /\ Len(conn.customers) = Len(before) + k - 1
              /\ SubSeq(conn.customers, 1, Len(before)) = before
              /\ \A i \in 1..(k - 1) :
                    ValuesOf(conn.customers[Len(before) + i]) = db_call.rows[i]
    /\ \A row \in partial : \E k \in 1..Len(conn.customers) : conn.customers[k] = row

\* how many line items of a list name the product id with the quantity
ItemCount(its, product_id, quantity) ==
    Cardinality({k \in 1..Len(its) : its[k][1].id = product_id /\ its[k][2] = quantity})

SameItemMultiset(its1, its2) ==
    \A k \in 1..Len(its1) :
        ItemCount(its1, its1[k][1].id, its1[k][2]) = ItemCount(its2, its1[k][1].id, its1[k][2])

\* the orders get_all_orders returns for the tables as the connection sees them
StoredOrders(t) == Database_get_all_orders(t, FALSE).ret

\* C22: when add_order(o) has returned an id other than -1, get_all_orders
\* returns exactly one order with that id, and it has o's customer_id, status
\* and order_date and the same multiset of (product id, quantity) pairs; and
\* an order the model layer accepts, one naming the same product twice
\* included, is stored (id other than -1) unless the database itself fails.
C22_StoredOrderRoundTrip ==
    db_call.op = "add_order" =>
        /\ ~db_call.fault => db_call.ret # -1
        /\ db_call.ret # -1 =>
              LET got == StoredOrders(conn)
                  o == db_call.order
                  same == {k \in 1..Len(got) : got[k].id = db_call.ret}
              IN  /\ Cardinality(same) = 1
                  /\ \A k \in same :
                        /\ got[k].customer_id = o.customer_id
                        /\ got[k].status = o.status
                        /\ got[k].order_date = o.order_date
                        /\ Len(got[k].items) = Len(o.items)
                        /\ SameItemMultiset(o.items, got[k].items)

\* C23: add_order is all-or-nothing: when it returns -1 the connection sees
\* the orders and the order items it saw before the call, and the committed
\* orders and items change only in a call of add_order that returns an id,
\* by the row and the items of that one order.
C23_AddOrderAllOrNothing ==
    [][/\ (db_call'.op = "add_order" /\ db_call'.ret = -1) =>
              /\ conn'.orders = conn.orders
              /\ conn'.order_items = conn.order_items
       /\ (disk'.orders # disk.orders \/ disk'.order_items # disk.order_items) =>
              /\ db_call'.op = "add_order"
              /\ db_call'.ret # -1
              /\ Len(disk'.orders) = Len(disk.orders) + 1
              /\ SubSeq(disk'.orders, 1, Len(disk.orders)) = disk.orders
              /\ Len(disk'.order_items) = Len(disk.order_items) + Len(db_call'.order.items)
              /\ SubSeq(disk'.order_items, 1, Len(disk.order_items)) = disk.order_items]_vars

(***************************************************************************)
(* Claims about the interface.                                             *)
(***************************************************************************)
Shown(box) == \E k \in 1..Len(messages) : messages[k] = box

\* C19: whenever import_data or export_data has run and the gateway
\* operation under it failed (unreadable file, storage error, malformed
\* content), the interface has shown an error message and has not shown the
\* success message.
C19_FailureIsReported ==
    (gui_call.handler \in {"import_data", "export_data"} /\ gui_call.error # "none") =>
        /\ Shown(ErrorBox)
        /\ ~Shown(SuccessInfo)

PlaceholderHandlers ==
    {"delete_customer", "delete_product", "view_order_details", "change_order_status"}

\* C20: after delete_customer, delete_product, view_order_details or
\* change_order_status, for every selection and either answer to the
\* question, the stored customers, products, orders and order items (as the
\* connection sees them and as committed) are what they were before, and so
\* are the displayed lists and the pending order form.
C20_PlaceholdersChangeNothing ==
    gui_call.handler \in PlaceholderHandlers =>
        /\ conn = gui_call.before.conn
        /\ disk = gui_call.before.disk
        /\ gui = gui_call.before.gui

\* delete_customer has run on a selected customer and the question was
\* answered with yes, with products and an order stored and a product in the
\* pending order
C20_Witness ==
    /\ gui_call.handler = "delete_customer"
    /\ messages = <<Confirmation, PlaceholderInfo>>
    /\ conn.customers # <<>>
    /\ conn.products # <<>>
    /\ conn.orders # <<>>
    /\ gui.orders_tree # <<>>
    /\ gui.current_order_items # <<>>

\* C24: every pair of the pending order holds a quantity of at least 1: when
\* add_product_to_order runs with a product selected and a quantity below 1 in
\* the quantity field, it shows an error and leaves the pending list as it was.
C24_PendingQuantityAtLeastOne ==
    [][/\ \A k \in 1..Len(gui'.current_order_items) : gui'.current_order_items[k][2] >= 1
       /\ (/\ gui_call'.handler = "add_product_to_order"
           /\ gui.product_var # <<>>
           /\ ~int(gui.quantity_var).raised
           /\ int(gui.quantity_var).value < 1) =>
              /\ \E k \in 1..Len(messages') : messages'[k] = ErrorBox
              /\ gui'.current_order_items = gui.current_order_items]_vars

\* C25: create_order stores an order only when a customer is selected and the
\* pending list is not empty; when it reports success the store has gained
\* one order whose items are the pending pairs, and the pending list is empty;
\* when it refuses or fails the store (as seen and as committed) has gained no
\* order and no item, and the pending list is as it was.
C25_CreateOrderStoresOrRefuses ==
    [][gui_call'.handler = "create_order" =>
          LET pending == gui.current_order_items
              got == StoredOrders(conn')
          IN  /\ Len(conn'.orders) > Len(conn.orders) =>
                    (gui.customer_var # <<>> /\ pending # <<>>)
              /\ IF \E k \in 1..Len(messages') : messages'[k] = SuccessInfo
                 THEN /\ Len(conn'.orders) = Len(conn.orders) + 1
                      /\ Len(got) = Len(conn'.orders)
                      /\ got[Len(got)].items = pending
                      /\ gui'.current_order_items = <<>>
                 ELSE /\ conn'.orders = conn.orders
                      /\ conn'.order_items = conn.order_items
                      /\ disk'.orders = disk.orders
                      /\ disk'.order_items = disk.order_items
                      /\ gui'.current_order_items = pending]_vars

\* C26: while the window is up, after the start and after every handler, the
\* product selector of the order form lists the stored products, one entry
\* "id - name" per product, in the order of the table.
C26_ProductSelectorListsProducts ==
    Running =>
        LET products == Database_get_all_products(conn, FALSE).ret
        IN  gui.product_combo = [k \in 1..Len(products) |-> product_text(products[k])]

\* a row of the customers table that the Customer constructor accepts
RowIsValid(row) ==
    ~Customer__init__(row.id, row.first_name, row.last_name,
                      row.email, row.phone, row.address).raised

\* C27: after every sequence of add_customer, import_from_csv and
\* import_from_json every row of the customers table passes the validation
\* of Customer, and get_all_customers (the database not failing) raises
\* nothing and returns one customer per row.
C27_StoredCustomersAreValid ==
    /\ \A k \in 1..Len(conn.customers) : RowIsValid(conn.customers[k])
    /\ (db_call.op = "get_all_customers" /\ db_call.error # "sqlite3.Error") =>
          /\ ~db_call.raised
          /\ Len(db_call.ret) = Len(conn.customers)

\* the sum of the values of the first k entries of a series
RECURSIVE SumEntries(_, _)
SumEntries(data, k) == IF k = 0 THEN 0 ELSE data[k][2] + SumEntries(data, k - 1)

\* C28: the entries of sales_by_category sum to the sum of all the line
\* totals, and every entry that bears the name of a product group holds that
\* group's total, also when a product is itself named as the 'Other' entry.
C28_SalesTotalConserved ==
    (report.kind = "sales_by_category" /\ report.figure \in {"pie", ValueErrorRaised}
        /\ ~Customers.raised) =>
        LET data == report.sales_data
        IN  /\ SumEntries(data, Len(data)) = SumLines(LinePositions)
            /\ \A i \in 1..Len(data) :
                  (data[i][1] \in ProductGroups /\ Cardinality(ProductGroups) <= TopCategories)
                      => data[i][2] = GroupTotal(data[i][1])
            /\ \A i \in 1..Len(data) :
                  (i <= TopCategories /\ Cardinality(ProductGroups) > TopCategories)
                      => (data[i][1] \in ProductGroups /\ data[i][2] = GroupTotal(data[i][1]))

\* the customer ids of the flattened rows and the orders of each
RankedCustomerIds == {db_orders[i].customer_id : i \in OrdersWithLines}
OrdersOfCustomer(cid) ==
    Cardinality({i \in OrdersWithLines : db_orders[i].customer_id = cid})

\* C29: every entry of top_customers_by_orders stands for one customer: it
\* bears the display name of a customer id and its count is the number of
\* distinct orders of that customer id, and top_n or more customer ids give
\* top_n entries; also for customers of the same name and for several
\* customer ids without a customer row.
C29_OneEntryPerCustomer ==
    (report.kind = "top_customers_by_orders" /\ report.figure = "bar") =>
        LET bars == report.bars
        IN  /\ Len(bars) = IF report.top_n < Cardinality(RankedCustomerIds)
                           THEN report.top_n ELSE Cardinality(RankedCustomerIds)
            /\ \A i \in 1..Len(bars) :
                  \E cid \in RankedCustomerIds :
                      /\ bars[i][1] = DisplayName(cid)
                      /\ bars[i][2] = OrdersOfCustomer(cid)

\* the sum of the counts of the buckets of a set of days
RECURSIVE SumBuckets(_, _)
SumBuckets(series, days) ==
    IF days = {} THEN 0
    ELSE LET d == CHOOSE x \in days : TRUE
         IN  series[d] + SumBuckets(series, days \ {d})

\* C30: the counts of the buckets of orders_dynamics sum to the number of
\* orders that get_all_orders returns, the orders without a line item
\* included (no bucket at all only when there is no order).
C30_BucketsCountAllOrders ==
    (report.kind = "orders_dynamics" /\ report.figure \in {"line", NoDataText}) =>
        LET total == IF report.figure = "line"
                     THEN SumBuckets(report.orders_by_date, DOMAIN report.orders_by_date)
                     ELSE 0
        IN  total = Len(db_orders)
====
